---- MODULE Spec2Model ----
(***************************************************************************)
(* xcp: locator parsing (internal/github/url.go) and zip extraction        *)
(* (internal/downloader/downloader.go).                                    *)
(*                                                                         *)
(* Strings are sequences of one-character strings, so that prefix tests,   *)
(* splitting and path cleaning are computed character by character as the  *)
(* Go standard library computes them.                                      *)
(***************************************************************************)
EXTENDS Integers, Sequences, FiniteSets, TLC

VARIABLES
    url,        \* the locator string handed to ParseGitHubURLWithRef
    parsed,     \* its result: [err, Owner, Repo, Path, Ref], or NotRun
    zipURL,     \* ParsedURL.ZipURL() of the result, or NoURL
    dlURL,      \* the URL ZipDownloader.Download builds for the request, or NoURL
    cmp,        \* locator components [owner, repo, path, ref] (two-form parsing)
    res1,       \* ParseGitHubURLWithRef("github:owner/repo/path@ref"), or NotRun
    res2,       \* ParseGitHubURLWithRef("github:owner/repo@ref/path"), or NotRun
    mEntry,     \* pathMatches: the archive entry path
    mPrefix,    \* pathMatches: the selection prefix
    mResult,    \* pathMatches(mEntry, mPrefix): "match", "nomatch", or "NotRun"
    zipOK,      \* whether zip.OpenReader can read the archive file
    archive,    \* reader.File: the archive's entries in order, each [name]
    sourcePath, \* extractPath's selection prefix
    targetPath, \* extractPath's target directory, as spelled by the caller
    dirs,       \* the filesystem's directories: absolute paths, as segment lists
    files,      \* the filesystem's regular files: absolute path -> content
    readOnly,   \* the directories and files without owner write permission
    pc,         \* where extractPath stands: "ready", "loop", "done"
    idx,        \* the entry the loop is at
    found,      \* extractPath's found
    extractedCount, \* extractPath's extractedCount
    err,        \* extractPath's returned error, once done
    madeTarget, \* what os.MkdirAll(targetPath) created
    made,       \* per processed entry, what its processing created
    dpc,        \* where ZipDownloader.Download stands: "start", "responded",
                \* "created", "checked", "acquired", "extracting", "returned"
    reqPath,    \* req.Path
    resp,       \* the response to the GET: [neterr, code, length]
    gets,       \* the number of HTTP GETs issued
    tempFile,   \* the temp archive file: "none", "exists", "removed"
    copied,     \* whether the whole response body is in the temp file
    removeFailed, \* whether an os.Remove of the temp file has failed
    dlErr,      \* the error Download returned: [is, msg, code]
    stderrLog,  \* the kinds of lines written to zd.stderr
    run,        \* repeated extraction: which run of extractPath this is
    first,      \* repeated extraction: the files and directories after the first run
    rpc,        \* where CLI.Run stands: "start", "zip", "api", "items", "returned"
    args,       \* the arguments after the source: <<>> or <<target>>
    method,     \* the --method flag
    overwrite,  \* the -f/--overwrite flag
    toStdout,   \* CLI.Run's outputToStdout
    stdout,     \* what has been written to stdout
    apiRepo,    \* the answer of the client's RepositoryExists
    apiCalls,   \* the number of calls of the API downloader's Download
    todo,       \* the API downloader's items still to download
    runErr,     \* the error CLI.Run returned
    existing,   \* the directories and regular files before CLI.Run
    mRel,       \* getRelativePath(mEntry, mPrefix): [err, rel], or NotRun
    kind,       \* the classification of the parsed source: [IsFile, IsDirectory, Legacy]
    shown,      \* ParsedURL.String() of the result, or NoURL
    reparsed,   \* ParseGitHubURLWithRef(shown), or NotRun
    inv,        \* concurrent downloads: per invocation [pc, zipPath]
    temps,      \* concurrent downloads: the temp directory, name -> [creator, complete]
    touched     \* concurrent downloads: the accesses to temp files, [by, owner, op]

locVars  == <<url, parsed, zipURL, dlURL>>
formVars == <<cmp, res1, res2>>
matchVars == <<mEntry, mPrefix, mResult, mRel>>
extractVars == <<zipOK, archive, sourcePath, targetPath, dirs, files, readOnly, pc, idx, found,
                 extractedCount, err, madeTarget, made>>
dlVars == <<dpc, reqPath, resp, gets, tempFile, copied, removeFailed, dlErr, stderrLog>>
repeatVars == <<run, first>>
runVars == <<rpc, args, method, overwrite, toStdout, stdout, apiRepo, apiCalls, todo, runErr,
            existing>>
srcVars == <<kind, shown, reparsed>>
concVars == <<inv, temps, touched>>
vars == <<url, parsed, zipURL, dlURL, cmp, res1, res2, mEntry, mPrefix, mResult,
          zipOK, archive, sourcePath, targetPath, dirs, files, readOnly, pc, idx, found,
          extractedCount, err, madeTarget, made,
          dpc, reqPath, resp, gets, tempFile, copied, removeFailed, dlErr, stderrLog,
          run, first, rpc, args, method, overwrite, toStdout, stdout, apiRepo, apiCalls,
          todo, runErr, existing, mRel, kind, shown, reparsed, inv, temps, touched>>

\* no result yet: a record for results, the empty string for derived URLs
NotRun == [err |-> "NotRun"]
NoURL == <<>>

-----------------------------------------------------------------------------
(* Bounds of the model.                                                    *)

\* longest locator body (the text after "github:") that is enumerated
MaxBody == 7
\* longest owner, repo, ref and path component of the two-form locators
MaxComp == 2
\* longest entry path handed to pathMatches (prefixes are one shorter)
MaxMatchLen == 4
\* most entries in an archive
MaxEntries == 2

-----------------------------------------------------------------------------
(* Go strings package, on sequences of characters.                         *)

\* strings.HasPrefix
HasPrefix(s, p) == Len(p) <= Len(s) /\ SubSeq(s, 1, Len(p)) = p

\* strings.HasSuffix
HasSuffix(s, p) == Len(p) <= Len(s) /\ SubSeq(s, Len(s) - Len(p) + 1, Len(s)) = p

\* strings.TrimPrefix
TrimPrefix(s, p) == IF HasPrefix(s, p) THEN SubSeq(s, Len(p) + 1, Len(s)) ELSE s

\* strings.Index for a one-character separator: 0-based, -1 when absent
Index(s, c) ==
    IF \E i \in 1..Len(s) : s[i] = c
    THEN (CHOOSE i \in 1..Len(s) : s[i] = c /\ \A j \in 1..(i - 1) : s[j] # c) - 1
    ELSE -1

\* strings.LastIndex for a one-character separator: 0-based, -1 when absent
LastIndex(s, c) ==
    IF \E i \in 1..Len(s) : s[i] = c
    THEN (CHOOSE i \in 1..Len(s) : s[i] = c /\ \A j \in (i + 1)..Len(s) : s[j] # c) - 1
    ELSE -1

\* Go slice expressions s[from:] and s[:to], 0-based
SliceFrom(s, from) == SubSeq(s, from + 1, Len(s))
SliceTo(s, to) == SubSeq(s, 1, to)

\* strings.SplitN(s, sep, n) for n > 0: at most n pieces, the last one unsplit
RECURSIVE SplitN(_, _, _)
SplitN(s, sep, n) ==
    IF n = 1 \/ Index(s, sep) = -1
    THEN <<s>>
    ELSE <<SliceTo(s, Index(s, sep))>> \o SplitN(SliceFrom(s, Index(s, sep) + 1), sep, n - 1)

\* strings.Split(s, sep): every piece
Split(s, sep) == SplitN(s, sep, Len(s) + 1)

\* all strings over alphabet A of length at most n
StringsUpTo(A, n) == UNION {[1..k -> A] : k \in 0..n}

-----------------------------------------------------------------------------
(* internal/github/url.go                                                  *)

GithubPrefix == <<"g", "i", "t", "h", "u", "b", ":">>
Main == <<"m", "a", "i", "n">>
ZipURLBase == <<"h", "t", "t", "p", "s", ":", "/", "/", "g", "i", "t", "h", "u", "b", ".", "c", "o", "m", "/">>
ZipURLArchive == <<"/", "a", "r", "c", "h", "i", "v", "e", "/">>
ZipURLExt == <<".", "z", "i", "p">>

ErrNil == "nil"
ErrInvalidURL == "ErrInvalidURL"
ErrMissingOwner == "ErrMissingOwner"
ErrMissingRepo == "ErrMissingRepo"

\* a (nil, err) return
ParseFailure(e) == [err |-> e, Owner |-> <<>>, Repo |-> <<>>, Path |-> <<>>, Ref |-> <<>>]

\* the reference text after "@", cut at its first "/" (url.go:74-84)
RefPartOf_NoCut(urlPart) ==
    LET atIndex == Index(urlPart, "@")
    IN  IF atIndex = -1 THEN Main ELSE SliceFrom(urlPart, atIndex + 1)

RefPartOf(urlPart) ==
    LET atIndex == Index(urlPart, "@")
        refPart == SliceFrom(urlPart, atIndex + 1)
        slashInRef == Index(refPart, "/")
    IN  IF atIndex = -1 THEN Main
        ELSE IF slashInRef # -1 THEN SliceTo(refPart, slashInRef)
        ELSE refPart

\* the owner/repo/path text, with a path found after the reference moved back
OwnerRepoPartOf_PathDropped(urlPart) ==
    LET atIndex == Index(urlPart, "@")
    IN  IF atIndex = -1 THEN urlPart ELSE SliceTo(urlPart, atIndex)

OwnerRepoPartOf(urlPart) ==
    LET atIndex == Index(urlPart, "@")
        refPart == SliceFrom(urlPart, atIndex + 1)
        slashInRef == Index(refPart, "/")
    IN  IF atIndex = -1 THEN urlPart
        ELSE IF slashInRef # -1
             THEN SliceTo(urlPart, atIndex) \o SliceFrom(refPart, slashInRef)
        ELSE SliceTo(urlPart, atIndex)

\* the error the split owner/repo/path text earns, if any (url.go:88-107)
PartsError_RepoFirst(parts) ==
    IF Len(parts) < 2 THEN ErrInvalidURL
    ELSE IF parts[2] = <<>> THEN ErrMissingRepo
    ELSE IF parts[1] = <<>> THEN ErrMissingOwner
    ELSE ErrNil

PartsError_OwnerOnlyIsMissingRepo(parts) ==
    IF Len(parts) < 2 THEN ErrMissingRepo
    ELSE IF parts[1] = <<>> THEN ErrMissingOwner
    ELSE IF parts[2] = <<>> THEN ErrMissingRepo
    ELSE ErrNil

PartsError(parts) ==
    IF Len(parts) < 2 THEN ErrInvalidURL
    ELSE IF parts[1] = <<>> THEN ErrMissingOwner
    ELSE IF parts[2] = <<>> THEN ErrMissingRepo
    ELSE ErrNil

\* an empty reference defaults to "main" (url.go:109-111)
RefOrMain_Keep(refPart) == refPart

RefOrMain(refPart) == IF refPart = <<>> THEN Main ELSE refPart

ParseGitHubURLWithRef(u) ==
    IF ~HasPrefix(u, GithubPrefix) THEN ParseFailure(ErrInvalidURL)
    ELSE
    LET urlPart == TrimPrefix(u, GithubPrefix)
        refPart == RefPartOf(urlPart)
        parts == SplitN(OwnerRepoPartOf(urlPart), "/", 3)
    IN  IF PartsError(parts) # ErrNil THEN ParseFailure(PartsError(parts))
        ELSE [err |-> ErrNil,
              Owner |-> parts[1],
              Repo |-> parts[2],
              Path |-> IF Len(parts) > 2 THEN parts[3] ELSE <<>>,
              Ref |-> RefOrMain(refPart)]

\* ParsedURL.ZipURL
ZipURL(p) == ZipURLBase \o p.Owner \o <<"/">> \o p.Repo \o ZipURLArchive \o p.Ref \o ZipURLExt

-----------------------------------------------------------------------------
(* internal/downloader/downloader.go: the request and its archive URL      *)

\* the DownloadRequest CLI.Run builds from the parsed locator
RequestOf(p, target) ==
    [Owner |-> p.Owner, Repo |-> p.Repo, Path |-> p.Path, Ref |-> p.Ref, Target |-> target]

\* Download's defaulting of an empty Ref
DefaultRef(ref) == IF ref = <<>> THEN Main ELSE ref

\* the zipURL Download builds
DownloadZipURL(req) ==
    ZipURLBase \o req.Owner \o <<"/">> \o req.Repo \o ZipURLArchive \o DefaultRef(req.Ref) \o ZipURLExt

-----------------------------------------------------------------------------
(* Specification SpecLocator: one locator string is parsed, then its       *)
(* archive URL is derived by ZipURL and by Download.                       *)

LocatorAlphabet == {"a", "/", "@"}
LocatorPrefixes == {<<>>, GithubPrefix, <<"g", "i", "t", "h", "u", "b">>}
Locators == {p \o b : p \in LocatorPrefixes, b \in StringsUpTo(LocatorAlphabet, MaxBody)}

NoComponents == [owner |-> <<>>, repo |-> <<>>, path |-> <<>>, ref |-> <<>>]

\* the parts of the state a specification does not use stay at these values
IdleLocator == url = <<>> /\ parsed = NotRun /\ zipURL = NoURL /\ dlURL = NoURL
IdleForms == cmp = NoComponents /\ res1 = NotRun /\ res2 = NotRun
IdleMatch == mEntry = <<>> /\ mPrefix = <<>> /\ mResult = "NotRun" /\ mRel = NotRun
IdleExtract ==
    /\ zipOK = TRUE
    /\ archive = <<>>
    /\ sourcePath = <<>>
    /\ targetPath = <<>>
    /\ dirs = {}
    /\ files = <<>>
    /\ readOnly = {}
    /\ pc = "idle"
    /\ idx = 0
    /\ found = FALSE
    /\ extractedCount = 0
    /\ err = ErrNil
    /\ madeTarget = {}
    /\ made = <<>>
IdleDownload ==
    /\ dpc = "idle"
    /\ reqPath = <<>>
    /\ resp = [neterr |-> FALSE, code |-> 0, length |-> "unknown"]
    /\ gets = 0
    /\ tempFile = "none"
    /\ copied = FALSE
    /\ removeFailed = FALSE
    /\ dlErr = [is |-> "nil", msg |-> <<>>, code |-> 0]
    /\ stderrLog = {}
IdleSource == kind = NotRun /\ shown = NoURL /\ reparsed = NotRun
IdleConc == inv = <<>> /\ temps = <<>> /\ touched = {}
IdleRepeat == run = 0 /\ first = [dirs |-> {}, files |-> <<>>]
IdleRun ==
    /\ rpc = "idle"
    /\ args = <<>>
    /\ method = "zip"
    /\ overwrite = FALSE
    /\ toStdout = FALSE
    /\ stdout = <<>>
    /\ apiRepo = "exists"
    /\ apiCalls = 0
    /\ todo = <<>>
    /\ runErr = [is |-> "nil", msg |-> <<>>, code |-> 0]
    /\ existing = [dirs |-> {}, files |-> <<>>]

InitLocator ==
    /\ url \in Locators
    /\ parsed = NotRun
    /\ zipURL = NoURL
    /\ dlURL = NoURL
    /\ IdleForms
    /\ IdleSource
    /\ IdleConc
    /\ IdleMatch
    /\ IdleExtract
    /\ IdleDownload
    /\ IdleRepeat
    /\ IdleRun

\* ParseGitHubURLWithRef(url)
Parse ==
    /\ parsed = NotRun
    /\ parsed' = ParseGitHubURLWithRef(url)
    /\ UNCHANGED <<url, zipURL, dlURL>>
    /\ UNCHANGED <<formVars, matchVars, extractVars, dlVars, repeatVars, runVars, srcVars, concVars>>

\* parsedURL.ZipURL()
DeriveZipURL ==
    /\ parsed # NotRun
    /\ parsed.err = ErrNil
    /\ zipURL = NoURL
    /\ zipURL' = ZipURL(parsed)
    /\ UNCHANGED <<url, parsed, dlURL>>
    /\ UNCHANGED <<formVars, matchVars, extractVars, dlVars, repeatVars, runVars, srcVars, concVars>>

\* Download(req) up to the construction of zipURL; the request carries the
\* parsed Ref (CLI.Run) or an empty Ref (DownloadFromSource with ref "")
DeriveDownloadURL ==
    /\ parsed # NotRun
    /\ parsed.err = ErrNil
    /\ dlURL = NoURL
    /\ \E r \in {parsed.Ref, <<>>} :
          dlURL' = DownloadZipURL([RequestOf(parsed, <<>>) EXCEPT !.Ref = r])
    /\ UNCHANGED <<url, parsed, zipURL>>
    /\ UNCHANGED <<formVars, matchVars, extractVars, dlVars, repeatVars, runVars, srcVars, concVars>>

NextLocator == Parse \/ DeriveZipURL \/ DeriveDownloadURL

SpecLocator == InitLocator /\ [][NextLocator]_vars

-----------------------------------------------------------------------------
(* Specification SpecForms: the two spellings of one locator,              *)
(* owner/repo/path@ref and owner/repo@ref/path, are both parsed.           *)

NameAlphabet == {"a", "b"}
RefAlphabet == {"v"}
PathAlphabet == {"a", "/"}

Components ==
    [owner : StringsUpTo(NameAlphabet, MaxComp) \ {<<>>},
     repo : StringsUpTo(NameAlphabet, MaxComp) \ {<<>>},
     path : StringsUpTo(PathAlphabet, MaxComp),
     ref : StringsUpTo(RefAlphabet, MaxComp)]

\* "github:owner/repo/path@ref"
PathThenRef(c) == GithubPrefix \o c.owner \o <<"/">> \o c.repo \o <<"/">> \o c.path \o <<"@">> \o c.ref

\* "github:owner/repo@ref/path"
RefThenPath(c) == GithubPrefix \o c.owner \o <<"/">> \o c.repo \o <<"@">> \o c.ref \o <<"/">> \o c.path

InitForms ==
    /\ cmp \in Components
    /\ res1 = NotRun
    /\ res2 = NotRun
    /\ IdleLocator
    /\ IdleSource
    /\ IdleConc
    /\ IdleMatch
    /\ IdleExtract
    /\ IdleDownload
    /\ IdleRepeat
    /\ IdleRun

ParsePathThenRef ==
    /\ res1 = NotRun
    /\ res1' = ParseGitHubURLWithRef(PathThenRef(cmp))
    /\ UNCHANGED <<cmp, res2>>
    /\ UNCHANGED <<locVars, matchVars, extractVars, dlVars, repeatVars, runVars, srcVars, concVars>>

ParseRefThenPath ==
    /\ res2 = NotRun
    /\ res2' = ParseGitHubURLWithRef(RefThenPath(cmp))
    /\ UNCHANGED <<cmp, res1>>
    /\ UNCHANGED <<locVars, matchVars, extractVars, dlVars, repeatVars, runVars, srcVars, concVars>>

NextForms == ParsePathThenRef \/ ParseRefThenPath

SpecForms == InitForms /\ [][NextForms]_vars

-----------------------------------------------------------------------------
(* Claims about the locator parser.                                        *)

HasChar(s, c) == \E i \in 1..Len(s) : s[i] = c

\* C6: for non-empty owner and repo, any ref and any path (also with a
\* trailing "/"), parsing "github:owner/repo/path@ref" and parsing
\* "github:owner/repo@ref/path" both succeed and return the same Owner, Repo,
\* Path and Ref, which are the components themselves (an empty ref read as
\* "main").
C6_TwoFormsAgree ==
    (res1 # NotRun /\ res2 # NotRun) =>
        /\ res1.err = ErrNil
        /\ res2.err = ErrNil
        /\ res1 = res2
        /\ res1.Owner = cmp.owner
        /\ res1.Repo = cmp.repo
        /\ res1.Path = cmp.path
        /\ res1.Ref = (IF cmp.ref = <<>> THEN Main ELSE cmp.ref)

C6_Witness ==
    /\ res1 # NotRun
    /\ res2 # NotRun
    /\ cmp.ref # <<>>
    /\ Len(cmp.path) > 1
    /\ HasSuffix(cmp.path, <<"/">>)

\* the locator is the scheme prefix followed by an owner alone
OwnerOnly(u) ==
    /\ HasPrefix(u, GithubPrefix)
    /\ Len(u) > Len(GithubPrefix)
    /\ ~HasChar(SliceFrom(u, Len(GithubPrefix)), "/")
    /\ ~HasChar(SliceFrom(u, Len(GithubPrefix)), "@")

\* C7 as stated: a locator made of the scheme prefix and an owner only fails
\* with ErrMissingRepo.
C7_OwnerOnlyIsMissingRepo ==
    (parsed # NotRun /\ OwnerOnly(url)) => parsed.err = ErrMissingRepo

\* C7 as amended: a locator made of the scheme prefix and an owner only fails
\* with ErrInvalidURL.
C7_OwnerOnlyIsInvalidURL ==
    (parsed # NotRun /\ OwnerOnly(url)) => parsed.err = ErrInvalidURL

C7_Witness == parsed # NotRun /\ OwnerOnly(url) /\ parsed.err # ErrNil

\* the owner/repo segment of a locator body, read off the text: what precedes
\* the first "@", followed by what the text after that "@" holds from its
\* first "/" on
FirstAt(b) == CHOOSE i \in 1..Len(b) : b[i] = "@" /\ ~HasChar(SubSeq(b, 1, i - 1), "@")
SlashAfter(b, i) == CHOOSE j \in (i + 1)..Len(b) : b[j] = "/" /\ ~HasChar(SubSeq(b, i + 1, j - 1), "/")
SegmentOf(b) ==
    IF ~HasChar(b, "@") THEN b
    ELSE IF HasChar(SubSeq(b, FirstAt(b) + 1, Len(b)), "/")
         THEN SubSeq(b, 1, FirstAt(b) - 1) \o SubSeq(b, SlashAfter(b, FirstAt(b)), Len(b))
    ELSE SubSeq(b, 1, FirstAt(b) - 1)

\* the error class the claim assigns to a locator
ExpectedClass(u) ==
    IF Len(u) < 7 \/ SubSeq(u, 1, 7) # GithubPrefix THEN ErrInvalidURL
    ELSE LET tokens == Split(SegmentOf(SubSeq(u, 8, Len(u))), "/")
         IN  IF Len(tokens) < 2 THEN ErrInvalidURL
             ELSE IF Len(tokens[1]) = 0 THEN ErrMissingOwner
             ELSE IF Len(tokens[2]) = 0 THEN ErrMissingRepo
             ELSE ErrNil

\* C8: no "github:" prefix gives ErrInvalidURL; fewer than two "/"-separated
\* tokens in the owner/repo segment gives ErrInvalidURL; an empty first token
\* gives ErrMissingOwner; a non-empty first token with an empty second token
\* gives ErrMissingRepo; every other input parses successfully.
C8_ErrorClasses == parsed # NotRun => parsed.err = ExpectedClass(url)

C8_Witness ==
    /\ parsed # NotRun
    /\ parsed.err = ErrMissingOwner
    /\ HasChar(url, "@")
    /\ Split(SegmentOf(SubSeq(url, 8, Len(url))), "/")[2] = <<>>

\* the locator has no "@", or nothing stands between its first "@" and the
\* next "/" (or the end of the input)
NoRefText(u) ==
    \/ ~HasChar(u, "@")
    \/ FirstAt(u) = Len(u)
    \/ u[FirstAt(u) + 1] = "/"

MainZipURL(owner, repo) ==
    ZipURLBase \o owner \o <<"/">> \o repo \o ZipURLArchive \o Main \o ZipURLExt

\* C9: when the locator has no "@" or an empty reference text, the parsed Ref
\* is "main", and the archive URL from ZipURL and the one Download builds
\* (which defaults an empty request Ref) are
\* https://github.com/<owner>/<repo>/archive/main.zip.
C9_DefaultRefIsMain ==
    (parsed # NotRun /\ parsed.err = ErrNil /\ NoRefText(url)) =>
        /\ parsed.Ref = Main
        /\ zipURL # NoURL => zipURL = MainZipURL(parsed.Owner, parsed.Repo)
        /\ dlURL # NoURL => dlURL = MainZipURL(parsed.Owner, parsed.Repo)

C9_Witness ==
    /\ parsed # NotRun
    /\ parsed.err = ErrNil
    /\ HasChar(url, "@")
    /\ NoRefText(url)
    /\ parsed.Path # <<>>
    /\ zipURL # NoURL
    /\ dlURL # NoURL

\* C10: every ParsedURL returned without error has a non-empty Owner, Repo and
\* Ref, and none of the three contains "/".
C10_ParsedFieldsWellFormed ==
    (parsed # NotRun /\ parsed.err = ErrNil) =>
        /\ parsed.Owner # <<>> /\ ~HasChar(parsed.Owner, "/")
        /\ parsed.Repo # <<>> /\ ~HasChar(parsed.Repo, "/")
        /\ parsed.Ref # <<>> /\ ~HasChar(parsed.Ref, "/")

C10_Witness ==
    /\ parsed # NotRun
    /\ parsed.err = ErrNil
    /\ HasChar(url, "@")
    /\ parsed.Ref # Main
    /\ parsed.Path # <<>>

-----------------------------------------------------------------------------
(* Go path/filepath on Unix, on sequences of characters.                   *)

Slash == <<"/">>
Dot == <<".">>
DotDot == <<".", ".">>

\* the elements joined by "/"
RECURSIVE JoinSegs(_)
JoinSegs(segs) ==
    IF segs = <<>> THEN <<>>
    ELSE IF Len(segs) = 1 THEN segs[1]
    ELSE segs[1] \o Slash \o JoinSegs(Tail(segs))

\* filepath.Clean's pass over the elements: empty and "." elements are
\* dropped, ".." removes the element before it, is dropped at the root, and is
\* kept at the head of a relative path
RECURSIVE CleanFold(_, _, _)
CleanFold(elems, out, rooted) ==
    IF elems = <<>> THEN out
    ELSE LET e == Head(elems)
         IN  IF e = <<>> \/ e = Dot THEN CleanFold(Tail(elems), out, rooted)
             ELSE IF e = DotDot
                  THEN IF out # <<>> /\ out[Len(out)] # DotDot
                       THEN CleanFold(Tail(elems), SubSeq(out, 1, Len(out) - 1), rooted)
                       ELSE IF rooted THEN CleanFold(Tail(elems), out, rooted)
                       ELSE CleanFold(Tail(elems), Append(out, e), rooted)
             ELSE CleanFold(Tail(elems), Append(out, e), rooted)

\* filepath.Clean
Clean(path) ==
    IF path = <<>> THEN Dot
    ELSE LET rooted == path[1] = "/"
             out == CleanFold(Split(path, "/"), <<>>, rooted)
         IN  IF rooted THEN Slash \o JoinSegs(out)
             ELSE IF out = <<>> THEN Dot
             ELSE JoinSegs(out)

\* filepath.Join of two elements: empty elements are ignored, the rest is
\* joined by "/" and cleaned
PathJoin(a, b) ==
    IF a = <<>> /\ b = <<>> THEN <<>>
    ELSE IF a = <<>> THEN Clean(b)
    ELSE IF b = <<>> THEN Clean(a)
    ELSE Clean(a \o Slash \o b)

\* the path without its trailing slashes
RECURSIVE StripTrailingSlashes(_)
StripTrailingSlashes(path) ==
    IF path # <<>> /\ path[Len(path)] = "/"
    THEN StripTrailingSlashes(SubSeq(path, 1, Len(path) - 1))
    ELSE path

\* filepath.Base
Base(path) ==
    IF path = <<>> THEN Dot
    ELSE LET stripped == StripTrailingSlashes(path)
             last == SliceFrom(stripped, LastIndex(stripped, "/") + 1)
         IN  IF last = <<>> THEN Slash ELSE last

\* filepath.Dir
Dir(path) == Clean(SliceTo(path, LastIndex(path, "/") + 1))

-----------------------------------------------------------------------------
(* The filesystem: directories and regular files at absolute paths, each a *)
(* list of path elements; the working directory of the process.            *)

Cwd == << <<"h">>, <<"w">> >>

\* the directory reached from `at` through the elements: "." and empty
\* elements stay, ".." goes to the parent (the root is its own parent)
RECURSIVE Walk(_, _)
Walk(at, elems) ==
    IF elems = <<>> THEN at
    ELSE LET e == Head(elems)
         IN  IF e = <<>> \/ e = Dot THEN Walk(at, Tail(elems))
             ELSE IF e = DotDot
                  THEN Walk(IF at = <<>> THEN at ELSE SubSeq(at, 1, Len(at) - 1), Tail(elems))
             ELSE Walk(Append(at, e), Tail(elems))

\* the absolute path the kernel resolves a path string to
Resolve(path) ==
    IF path # <<>> /\ path[1] = "/" THEN Walk(<<>>, Split(path, "/"))
    ELSE Walk(Cwd, Split(path, "/"))

\* a is b or an ancestor of b
IsAtOrAbove(a, b) == Len(a) <= Len(b) /\ SubSeq(b, 1, Len(a)) = a

Ancestors(abs) == {SubSeq(abs, 1, k) : k \in 0..Len(abs)}

\* Permission bits are kept as the owner's write bit: "rw" when it is set
\* (0644, 0755), "ro" when it is clear (0444, 0555). The process is not the
\* superuser.
Writable == "rw"
NotWritable == "ro"

\* the directories on the way to path that do not exist, and the deepest one
\* that does
Missing(ds, path) == {a \in Ancestors(Resolve(path)) : a \notin ds}
DeepestExisting(ds, path) ==
    CHOOSE a \in Ancestors(Resolve(path)) \cap ds :
        \A b \in Ancestors(Resolve(path)) \cap ds : Len(b) <= Len(a)

\* os.MkdirAll(path, mode) fails with ENOTDIR when the path or one of its
\* parents is a regular file (and with ENOENT on the empty path)
MkdirAllFails(fl, path) ==
    \/ path = <<>>
    \/ \E a \in Ancestors(Resolve(path)) : a \in DOMAIN fl

\* os.MkdirAll(path, mode) fails with EACCES when a directory has to be made
\* in one that is not writable: the deepest existing one, or a parent the
\* call itself has just made with the mode
MkdirAllDenied(ds, ro, path, mode) ==
    /\ Missing(ds, path) # {}
    /\ \/ DeepestExisting(ds, path) \in ro
       \/ mode = NotWritable /\ Cardinality(Missing(ds, path)) >= 2

\* the directories os.MkdirAll(path, mode) makes, top down, until it fails
MkdirAllMade(ds, fl, ro, path, mode) ==
    IF MkdirAllFails(fl, path) \/ Missing(ds, path) = {} THEN {}
    ELSE IF DeepestExisting(ds, path) \in ro THEN {}
    ELSE IF mode = NotWritable
         THEN {a \in Missing(ds, path) : \A b \in Missing(ds, path) : Len(a) <= Len(b)}
    ELSE Missing(ds, path)

\* os.MkdirAll(path, mode): whether it failed, and the directories and the
\* read-only set after it
MkdirAll(ds, fl, ro, path, mode) ==
    LET new == MkdirAllMade(ds, fl, ro, path, mode)
    IN  [failed |-> MkdirAllFails(fl, path) \/ MkdirAllDenied(ds, ro, path, mode),
         dirs |-> ds \cup new,
         ro |-> ro \cup (IF mode = NotWritable THEN new ELSE {})]

\* os.OpenFile(path, O_WRONLY|O_CREATE|O_TRUNC, mode): fails on a directory,
\* below a missing parent or a regular file, on an existing file that is not
\* writable, and for a new file in a directory that is not writable
OpenFileFails(ds, fl, ro, path) ==
    LET abs == Resolve(path)
    IN  \/ abs \in ds
        \/ abs = <<>>
        \/ SubSeq(abs, 1, Len(abs) - 1) \notin ds
        \/ abs \in DOMAIN fl /\ abs \in ro
        \/ abs \notin DOMAIN fl /\ SubSeq(abs, 1, Len(abs) - 1) \in ro

\* the read-only set after os.OpenFile(path, ..., mode) succeeded: a file it
\* created has the mode, an existing file keeps its own
OpenFileModes(fl, ro, path, mode) ==
    IF Resolve(path) \notin DOMAIN fl /\ mode = NotWritable
    THEN ro \cup {Resolve(path)}
    ELSE ro

\* the files after content has been written to path
WriteFile(fl, path, content) ==
    [q \in DOMAIN fl \cup {Resolve(path)} |-> IF q = Resolve(path) THEN content ELSE fl[q]]

-----------------------------------------------------------------------------
(* internal/downloader/downloader.go: extraction                           *)

ErrZipExtractFailed == "ErrZipExtractFailed"
ErrPathNotFoundInZip == "ErrPathNotFoundInZip"
ErrInvalidZipPath == "ErrInvalidZipPath"

\* filepath.ToSlash on Unix
ToSlash(path) == path

\* ZipDownloader.pathMatches
pathMatches_CharPrefix(zipPath, srcPath) ==
    ToSlash(zipPath) = ToSlash(srcPath) \/ HasPrefix(ToSlash(zipPath), ToSlash(srcPath))

pathMatches(zipPath, srcPath) ==
    \/ ToSlash(zipPath) = ToSlash(srcPath)
    \/ HasPrefix(ToSlash(zipPath), ToSlash(srcPath) \o Slash)

\* ZipDownloader.getRelativePath: [err, rel]
getRelativePath_CharPrefix(zipPath, srcPath) ==
    IF ToSlash(zipPath) = ToSlash(srcPath) THEN [err |-> FALSE, rel |-> <<>>]
    ELSE IF HasPrefix(ToSlash(zipPath), ToSlash(srcPath))
         THEN [err |-> FALSE, rel |-> TrimPrefix(ToSlash(zipPath), ToSlash(srcPath))]
    ELSE [err |-> TRUE, rel |-> <<>>]

getRelativePath(zipPath, srcPath) ==
    IF ToSlash(zipPath) = ToSlash(srcPath) THEN [err |-> FALSE, rel |-> <<>>]
    ELSE IF HasPrefix(ToSlash(zipPath), ToSlash(srcPath) \o Slash)
         THEN [err |-> FALSE, rel |-> TrimPrefix(ToSlash(zipPath), ToSlash(srcPath) \o Slash)]
    ELSE [err |-> TRUE, rel |-> <<>>]

\* file.FileInfo().IsDir(): a zip entry whose name ends in "/" is a directory
IsDir(entry) == HasSuffix(entry.name, Slash)

\* the content stored for an entry: each entry name has its own
ContentOf(entry) == entry.name

\* file.FileInfo().Mode(): the permission bits stored for an entry
ModeOf(entry) == entry.mode

\* extractPath's test for the source directory itself, which it skips
IsSourceItself_Never(relPath, file) == FALSE

IsSourceItself(relPath, file) == relPath = <<>> /\ IsDir(file)

\* extractPath's targetFilePath
TargetFilePath(target, name, relPath) ==
    IF relPath = <<>> THEN PathJoin(target, Base(name)) ELSE PathJoin(target, relPath)

\* extractPath's zip-slip validation: TRUE when the entry is let through
PassesContainment(target, targetFile) ==
    \/ HasPrefix(Clean(targetFile), Clean(target) \o Slash)
    \/ Clean(targetFile) = Clean(target)

\* what processing one archive entry does (the body of extractPath's loop):
\* [matched, err, dirs, files, ro, extracted]; err # ErrNil is a return
EntryOutcome(file, ds, fl, ro, srcPath, target) ==
    LET skip == [matched |-> TRUE, err |-> ErrNil, dirs |-> ds, files |-> fl, ro |-> ro,
                 extracted |-> 0]
        relPath == getRelativePath(file.name, srcPath)
        targetFilePath == TargetFilePath(target, file.name, relPath.rel)
        mkEntry == MkdirAll(ds, fl, ro, targetFilePath, ModeOf(file))
        mkParent == MkdirAll(ds, fl, ro, Dir(targetFilePath), Writable)
    IN  IF ~pathMatches(file.name, srcPath) THEN [skip EXCEPT !.matched = FALSE]
        ELSE IF relPath.err THEN [skip EXCEPT !.err = ErrInvalidZipPath]
        ELSE IF IsSourceItself(relPath.rel, file) THEN skip
        ELSE IF ~PassesContainment(target, targetFilePath)
             THEN [skip EXCEPT !.err = ErrInvalidZipPath]
        ELSE IF IsDir(file)
             THEN [skip EXCEPT !.err = (IF mkEntry.failed THEN ErrZipExtractFailed ELSE ErrNil),
                               !.dirs = mkEntry.dirs,
                               !.ro = mkEntry.ro]
        \* extractFile
        ELSE IF mkParent.failed
             THEN [skip EXCEPT !.err = ErrZipExtractFailed, !.dirs = mkParent.dirs]
        ELSE IF OpenFileFails(mkParent.dirs, fl, ro, targetFilePath)
             THEN [skip EXCEPT !.err = ErrZipExtractFailed, !.dirs = mkParent.dirs]
        ELSE [skip EXCEPT !.dirs = mkParent.dirs,
                          !.files = WriteFile(fl, targetFilePath, ContentOf(file)),
                          !.ro = OpenFileModes(fl, ro, targetFilePath, ModeOf(file)),
                          !.extracted = 1]

-----------------------------------------------------------------------------
(* Specification SpecMatch: pathMatches on one entry path and one prefix.  *)

MatchAlphabet == {"s", "r", "/"}

InitMatch ==
    /\ mEntry \in StringsUpTo(MatchAlphabet, MaxMatchLen)
    /\ mPrefix \in StringsUpTo(MatchAlphabet, MaxMatchLen - 1)
    /\ mResult = "NotRun"
    /\ mRel = NotRun
    /\ IdleLocator
    /\ IdleForms
    /\ IdleSource
    /\ IdleConc
    /\ IdleExtract
    /\ IdleDownload
    /\ IdleRepeat
    /\ IdleRun

Match ==
    /\ mResult = "NotRun"
    /\ mResult' = (IF pathMatches(mEntry, mPrefix) THEN "match" ELSE "nomatch")
    /\ UNCHANGED <<mEntry, mPrefix, mRel>>
    /\ UNCHANGED <<locVars, formVars, extractVars, dlVars, repeatVars, runVars, srcVars, concVars>>

\* getRelativePath(mEntry, mPrefix)
Relative ==
    /\ mRel = NotRun
    /\ mRel' = getRelativePath(mEntry, mPrefix)
    /\ UNCHANGED <<mEntry, mPrefix, mResult>>
    /\ UNCHANGED <<locVars, formVars, extractVars, dlVars, repeatVars, runVars, srcVars, concVars>>

NextMatch == Match \/ Relative

SpecMatch == InitMatch /\ [][NextMatch]_vars

\* C24: getRelativePath(entry, prefix) fails exactly when pathMatches(entry,
\* prefix) is false; when it succeeds it returns "" for entry = prefix and
\* otherwise the text of entry after prefix + "/"; so for an entry that
\* pathMatches let through, as in extractPath's loop, it never fails.
C24_RelativeIffMatches ==
    mRel # NotRun =>
        /\ mRel.err <=> ~pathMatches(mEntry, mPrefix)
        /\ mResult # "NotRun" => (mRel.err <=> mResult = "nomatch")
        /\ mResult = "match" => ~mRel.err
        /\ ~mRel.err =>
              IF mEntry = mPrefix THEN mRel.rel = <<>>
              ELSE mPrefix \o Slash \o mRel.rel = mEntry

C24_Witness ==
    /\ mResult = "match"
    /\ mRel # NotRun
    /\ ~mRel.err
    /\ mRel.rel # <<>>

-----------------------------------------------------------------------------
(* Specification SpecExtract: one call of extractPath, entry by entry.     *)

\* entry names: the archive's top directory "p" and below it a file, a
\* directory, a file in it, names with ".." elements, and a file in a second
\* top directory "pq"
EntryNames ==
    { <<"p", "/">>,
      <<"p", "/", "a">>,
      <<"p", "/", "d", "/">>,
      <<"p", "/", "d", "/", "a">>,
      <<"p", "/", ".", ".", "/", "x">>,
      <<"p", "/", "d", "/", ".", ".", "/", "b">>,
      <<"p", "q", "/", "a">> }

\* the permission bits an entry stores
Modes == {Writable, NotWritable}

\* the entries stored without owner write permission: a file and a directory
ReadOnlyNames == { <<"p", "/", "a">>, <<"p", "/", "d", "/">> }

Entries == [name : EntryNames, mode : {Writable}] \cup [name : ReadOnlyNames, mode : {NotWritable}]

Archives == UNION {[1..k -> Entries] : k \in 0..MaxEntries}

\* selections: the whole repository, a directory, a file, a missing path
SourcePaths ==
    { <<"p">>, <<"p", "/", "d">>, <<"p", "/", "a">>, <<"p", "/", "n">> }

\* target spellings: relative, absolute, "./t", ".", "..", "/"
TargetPaths ==
    { <<"t">>, <<"/", "t">>, <<".", "/", "t">>, Dot, DotDot, Slash }

\* the directories that exist before the call: the root and the working
\* directory with its parents
BaseDirs == Ancestors(Cwd)

OldContent == <<"o", "l", "d">>

InitExtract ==
    /\ zipOK \in BOOLEAN
    /\ archive \in (IF zipOK THEN Archives ELSE {<<>>})
    /\ sourcePath \in SourcePaths
    /\ targetPath \in TargetPaths
    /\ \E pre \in {"absent", "dir", "file"} :
          /\ dirs = BaseDirs \cup (IF pre = "dir" THEN {Resolve(targetPath)} ELSE {})
          /\ files = (IF pre = "file" /\ Resolve(targetPath) \notin BaseDirs
                      THEN [q \in {Resolve(targetPath)} |-> OldContent]
                      ELSE <<>>)
    /\ readOnly = {}
    /\ pc = "ready"
    /\ idx = 0
    /\ found = FALSE
    /\ extractedCount = 0
    /\ err = ErrNil
    /\ madeTarget = {}
    /\ made = <<>>
    /\ IdleLocator
    /\ IdleForms
    /\ IdleSource
    /\ IdleConc
    /\ IdleMatch
    /\ IdleDownload
    /\ IdleRepeat
    /\ IdleRun

\* zip.OpenReader and os.MkdirAll(targetPath, 0755)
BeginExtract ==
    /\ pc = "ready"
    /\ IF ~zipOK
       THEN /\ pc' = "done"
            /\ err' = ErrZipExtractFailed
            /\ UNCHANGED <<dirs, madeTarget, idx>>
       ELSE LET mk == MkdirAll(dirs, files, readOnly, targetPath, Writable)
            IN  /\ dirs' = mk.dirs
                /\ madeTarget' = mk.dirs \ dirs
                /\ IF mk.failed
                   THEN pc' = "done" /\ err' = ErrZipExtractFailed /\ UNCHANGED idx
                   ELSE pc' = "loop" /\ idx' = 1 /\ UNCHANGED err
    /\ UNCHANGED <<zipOK, archive, sourcePath, targetPath, files, readOnly, found,
                   extractedCount, made>>
    /\ UNCHANGED <<locVars, formVars, matchVars, dlVars, repeatVars, runVars, srcVars, concVars>>

\* one iteration of the loop over reader.File
ExtractEntry ==
    /\ pc = "loop"
    /\ idx <= Len(archive)
    /\ LET out == EntryOutcome(archive[idx], dirs, files, readOnly, sourcePath, targetPath)
       IN  /\ found' = (found \/ out.matched)
           /\ dirs' = out.dirs
           /\ files' = out.files
           /\ readOnly' = out.ro
           /\ extractedCount' = extractedCount + out.extracted
           /\ made' = Append(made, (out.dirs \ dirs) \cup (DOMAIN out.files \ DOMAIN files))
           /\ err' = out.err
           /\ pc' = (IF out.err # ErrNil THEN "done" ELSE "loop")
           /\ idx' = (IF out.err # ErrNil THEN idx ELSE idx + 1)
    /\ UNCHANGED <<zipOK, archive, sourcePath, targetPath, madeTarget>>
    /\ UNCHANGED <<locVars, formVars, matchVars, dlVars, repeatVars, runVars, srcVars, concVars>>

\* after the loop: the found check and the return
FinishExtract ==
    /\ pc = "loop"
    /\ idx > Len(archive)
    /\ pc' = "done"
    /\ err' = (IF ~found THEN ErrPathNotFoundInZip ELSE ErrNil)
    /\ UNCHANGED <<zipOK, archive, sourcePath, targetPath, dirs, files, readOnly, idx, found,
                   extractedCount, madeTarget, made>>
    /\ UNCHANGED <<locVars, formVars, matchVars, dlVars, repeatVars, runVars, srcVars, concVars>>

NextExtract == BeginExtract \/ ExtractEntry \/ FinishExtract

SpecExtract == InitExtract /\ [][NextExtract]_vars

-----------------------------------------------------------------------------
(* Claims about pathMatches and extractPath.                               *)

\* the "/"-separated pieces of the prefix are the leading pieces of the entry
SegmentPrefix(prefix, entry) ==
    LET ps == Split(prefix, "/")
        es == Split(entry, "/")
    IN  Len(ps) <= Len(es) /\ \A i \in 1..Len(ps) : es[i] = ps[i]

\* C5: pathMatches(entryPath, prefix) is true exactly when entryPath is the
\* prefix or starts with the prefix followed by "/", that is, when the prefix
\* is a run of whole leading path segments of the entry; an entry that only
\* shares leading characters with the prefix does not match.
C5_MatchesWholeSegments ==
    mResult # "NotRun" =>
        /\ (mResult = "match") <=> SegmentPrefix(mPrefix, mEntry)
        /\ (mResult = "match") <=>
              \/ mEntry = mPrefix
              \/ /\ Len(mEntry) > Len(mPrefix)
                 /\ SubSeq(mEntry, 1, Len(mPrefix) + 1) = mPrefix \o Slash

C5_Witness ==
    /\ mResult = "nomatch"
    /\ HasChar(mPrefix, "/")
    /\ mPrefix[Len(mPrefix)] # "/"
    /\ Len(mEntry) > Len(mPrefix)
    /\ SubSeq(mEntry, 1, Len(mPrefix)) = mPrefix

\* the absolute path of the target directory
TargetAbs == Resolve(targetPath)

\* everything the call has created so far
AllMade == madeTarget \cup UNION {made[i] : i \in 1..Len(made)}

\* an entry the selection covers, and its path relative to the selection
Selected(name) == SegmentPrefix(sourcePath, name)
RelOf(name) == SubSeq(name, Len(sourcePath) + 2, Len(name))

\* the selection root itself, stored as a directory: never materialized
IsRootDir(name) == RelOf(name) = <<>> /\ name[Len(name)] = "/"

\* the cleaned destination of a selected entry
DestOf(name) ==
    Clean(targetPath \o Slash \o (IF RelOf(name) = <<>> THEN Base(name) ELSE RelOf(name)))

\* C1: in every state during or after extractPath, each file or directory the
\* call created lies at or below the target directory.
C1_NothingOutsideTarget ==
    \A q \in AllMade : IsAtOrAbove(TargetAbs, q)

\* C2: when a selected entry's cleaned destination is neither the target
\* directory nor below it, extractPath returns ErrInvalidZipPath and nothing
\* is created for that entry.
C2_OutsideEntryRejected ==
    \A i \in 1..Len(made) :
        ( /\ Selected(archive[i].name)
          /\ ~IsRootDir(archive[i].name)
          /\ ~IsAtOrAbove(TargetAbs, Resolve(DestOf(archive[i].name))) )
        => (pc = "done" /\ err = ErrInvalidZipPath /\ made[i] = {})

\* the regular files at or below the target directory
FilesUnderTarget == {q \in DOMAIN files : IsAtOrAbove(TargetAbs, q)}

\* the selected file entries
SelectedFiles == {i \in 1..Len(archive) :
                    Selected(archive[i].name) /\ ~IsDir(archive[i])}

\* C25: an entry that is the selection root itself, stored as a directory,
\* counts as a match and creates nothing; when every selected entry of a
\* fully processed archive is such an entry, extractPath returns success
\* with zero files extracted and nothing created by any entry.
C25_RootEntryNotMaterialized ==
    /\ \A i \in 1..Len(made) :
          (Selected(archive[i].name) /\ IsRootDir(archive[i].name))
          => (found /\ made[i] = {})
    /\ ( /\ pc = "done"
         /\ Len(made) = Len(archive)
         /\ \E i \in 1..Len(archive) : Selected(archive[i].name)
         /\ \A i \in 1..Len(archive) :
               Selected(archive[i].name) => IsRootDir(archive[i].name) )
       => /\ err = ErrNil
          /\ extractedCount = 0
          /\ \A i \in 1..Len(made) : made[i] = {}

C25_Witness ==
    /\ pc = "done"
    /\ err = ErrNil
    /\ found
    /\ extractedCount = 0
    /\ Len(made) = Len(archive)
    /\ \E i \in 1..Len(archive) :
          Selected(archive[i].name) /\ IsRootDir(archive[i].name)
    /\ \A i \in 1..Len(archive) :
          Selected(archive[i].name) => IsRootDir(archive[i].name)

\* the relative path of an entry holds a ".." segment
HasDotDot(rel) == \E k \in 1..Len(Split(rel, "/")) : Split(rel, "/")[k] = DotDot

\* C28: extractPath returns ErrInvalidZipPath for an entry only when the
\* entry's destination lies outside the target directory, for every
\* spelling of the target; an entry whose relative path holds no ".." is
\* never rejected.
C28_NoFalseRejection ==
    (pc = "done" /\ err = ErrInvalidZipPath) =>
        /\ ~IsAtOrAbove(TargetAbs, Resolve(DestOf(archive[idx].name)))
        /\ HasDotDot(RelOf(archive[idx].name))

\* C3: after a successful extractPath into a target holding no files, the
\* regular files under the target are exactly the destinations target/rel(e)
\* of the selected file entries e, each with the content of its entry.
C3_ExactlySelectedFiles ==
    (pc = "done" /\ err = ErrNil) =>
        /\ FilesUnderTarget = {Resolve(DestOf(archive[i].name)) : i \in SelectedFiles}
        /\ \A i \in SelectedFiles :
              /\ Resolve(DestOf(archive[i].name)) \in DOMAIN files
              /\ files[Resolve(DestOf(archive[i].name))] = ContentOf(archive[i])

\* C4: extractPath fails with ErrPathNotFoundInZip exactly when no earlier
\* error occurred and no archive entry matches the selection prefix; when it
\* fails this way no file has been materialized under the target.
C4_NotFoundIffNoMatch ==
    pc = "done" =>
        /\ (err = ErrPathNotFoundInZip) <=>
              ( /\ zipOK
                /\ ~(\E a \in Ancestors(TargetAbs) : a \in DOMAIN files)
                /\ \A i \in 1..Len(archive) : ~Selected(archive[i].name) )
        /\ (err = ErrPathNotFoundInZip) =>
              (FilesUnderTarget = {} /\ \A i \in 1..Len(made) : made[i] = {})

C4_Witness ==
    /\ pc = "done"
    /\ err = ErrPathNotFoundInZip
    /\ Len(archive) = MaxEntries
    /\ \E i \in 1..Len(archive) : HasPrefix(archive[i].name, sourcePath)

-----------------------------------------------------------------------------
(* internal/downloader/downloader.go: ZipDownloader.Download, downloadZip  *)

StatusOK == 200
StatusNotFound == 404
StatusServerError == 500

ErrZipDownloadFailed == "ErrZipDownloadFailed"
\* an error built by fmt.Errorf without %w: errors.Is matches no sentinel
NoSentinel == "none"

\* an error value: the sentinel errors.Is finds in it, the parts of its
\* message from the outermost wrapping inwards, and the status code formatted
\* into the message with %d (0 when none is)
ErrorOf(sentinel, msg, code) == [is |-> sentinel, msg |-> msg, code |-> code]
NilError == ErrorOf(ErrNil, <<>>, 0)

\* downloadZip's errors
NetworkError == ErrorOf(ErrZipDownloadFailed, <<"network error">>, 0)
StatusError(code) ==
    IF code = StatusNotFound
    THEN ErrorOf(ErrZipDownloadFailed, <<"repository or reference not found (404)">>, 0)
    ELSE ErrorOf(ErrZipDownloadFailed, <<"unexpected status code">>, code)
TempFileError == ErrorOf(ErrZipDownloadFailed, <<"failed to create temp file">>, 0)
WriteError == ErrorOf(ErrZipDownloadFailed, <<"failed to write zip file">>, 0)
\* checkDiskSpace's error
DiskCheckError == ErrorOf(NoSentinel, <<"failed to check disk space">>, 0)

\* Download's wrapping of downloadZip's error
WrapDownload(e) == [e EXCEPT !.msg = <<"failed to download repository zip">> \o e.msg]
\* Download's wrapping of extractPath's error
WrapExtract(e) == ErrorOf(e, <<"failed to extract path from zip", e>>, 0)

\* the lines Download and checkDiskSpace write to stderr
CleanupWarning == "Warning: failed to clean up zip file"
LargeWarning == "Warning: downloading large repository"
SuccessLine == "Successfully downloaded"

\* os.Remove(zipPath): the temp file after the call, which succeeded or not
RemoveTemp_Skip(state, ok) == state

RemoveTemp(state, ok) == IF ok THEN "removed" ELSE state

\* where downloadZip goes after io.Copy, which succeeded or not
AfterCopy_IgnoreError(ok) == "acquired"

AfterCopy(ok) == IF ok THEN "acquired" ELSE "returned"

\* what Download returns after extractPath returned extractErr and the
\* deferred os.Remove succeeded or not
DownloadResult_CleanupWins(extractErr, removeOK) ==
    IF ~removeOK THEN ErrorOf(NoSentinel, <<CleanupWarning>>, 0)
    ELSE IF extractErr # ErrNil THEN WrapExtract(extractErr)
    ELSE NilError

DownloadResult(extractErr, removeOK) ==
    IF extractErr # ErrNil THEN WrapExtract(extractErr) ELSE NilError

\* what the return writes to stderr
ReturnLines(extractErr, removeOK) ==
    (IF extractErr = ErrNil THEN {SuccessLine} ELSE {})
        \cup (IF removeOK THEN {} ELSE {CleanupWarning})

\* the archive's top directory: fmt.Sprintf("%s-%s", req.Repo, req.Ref)
RepoPrefix == <<"p">>

\* Download's sourcePath
SourcePathOf(repoPrefix, path) ==
    IF path # <<>> THEN PathJoin(repoPrefix, path) ELSE repoPrefix

-----------------------------------------------------------------------------
(* Specification SpecDownload: one call of ZipDownloader.Download: the GET,*)
(* the temp file, the copy of the body, extractPath entry by entry, and    *)
(* the deferred removal of the temp file.                                  *)

\* responses: a transport error, or a status with a declared content length
\* that is absent (<= 0), plausible, or above 1 GiB
NoResponse == [neterr |-> FALSE, code |-> 0, length |-> "unknown"]
Responses ==
    {[neterr |-> TRUE, code |-> 0, length |-> "unknown"]}
        \cup [neterr : {FALSE}, code : {StatusNotFound, StatusServerError}, length : {"unknown"}]
        \cup [neterr : {FALSE}, code : {StatusOK}, length : {"unknown", "known", "huge"}]

\* entry names of the served archives
DownloadEntryNames ==
    { <<"p", "/">>,
      <<"p", "/", "a">>,
      <<"p", "/", "d", "/", "a">>,
      <<"p", "/", ".", ".", "/", "x">> }

DownloadArchives ==
    UNION {[1..k -> [name : DownloadEntryNames, mode : Modes]] : k \in 0..MaxEntries}

\* req.Path: the whole repository, a directory, a file, a missing path
RequestPaths == { <<>>, <<"d">>, <<"a">>, <<"n">> }

\* req.Target
DownloadTargets == { <<"t">>, DotDot }

InitDownload ==
    /\ zipOK \in BOOLEAN
    /\ archive \in (IF zipOK THEN DownloadArchives ELSE {<<>>})
    /\ reqPath \in RequestPaths
    /\ targetPath \in DownloadTargets
    /\ sourcePath = <<>>
    /\ \E pre \in {"absent", "file"} :
          /\ dirs = BaseDirs
          /\ files = (IF pre = "file" /\ Resolve(targetPath) \notin BaseDirs
                      THEN [q \in {Resolve(targetPath)} |-> OldContent]
                      ELSE <<>>)
    /\ readOnly = {}
    /\ pc = "wait"
    /\ idx = 0
    /\ found = FALSE
    /\ extractedCount = 0
    /\ err = ErrNil
    /\ madeTarget = {}
    /\ made = <<>>
    /\ dpc = "start"
    /\ resp = NoResponse
    /\ gets = 0
    /\ tempFile = "none"
    /\ copied = FALSE
    /\ removeFailed = FALSE
    /\ dlErr = NilError
    /\ stderrLog = {}
    /\ IdleLocator
    /\ IdleForms
    /\ IdleSource
    /\ IdleConc
    /\ IdleMatch
    /\ IdleRepeat
    /\ IdleRun

\* downloadZip: zd.httpClient.Get(url) and the status checks
HttpGet ==
    /\ dpc = "start"
    /\ gets' = gets + 1
    /\ \E r \in Responses :
          /\ resp' = r
          /\ IF r.neterr
             THEN dpc' = "returned" /\ dlErr' = WrapDownload(NetworkError)
             ELSE IF r.code # StatusOK
                  THEN dpc' = "returned" /\ dlErr' = WrapDownload(StatusError(r.code))
                  ELSE dpc' = "responded" /\ UNCHANGED dlErr
    /\ UNCHANGED <<reqPath, tempFile, copied, removeFailed, stderrLog>>
    /\ UNCHANGED <<locVars, formVars, matchVars, extractVars, repeatVars, runVars, srcVars, concVars>>

\* downloadZip: os.CreateTemp
CreateTemp ==
    /\ dpc = "responded"
    /\ \E ok \in BOOLEAN :
          IF ok
          THEN tempFile' = "exists" /\ dpc' = "created" /\ UNCHANGED dlErr
          ELSE dpc' = "returned" /\ dlErr' = WrapDownload(TempFileError) /\ UNCHANGED tempFile
    /\ UNCHANGED <<reqPath, resp, gets, copied, removeFailed, stderrLog>>
    /\ UNCHANGED <<locVars, formVars, matchVars, extractVars, repeatVars, runVars, srcVars, concVars>>

\* downloadZip: checkDiskSpace when the response declares a content length
CheckDisk ==
    /\ dpc = "created"
    /\ \E statOK \in BOOLEAN, removeOK \in BOOLEAN :
          IF resp.length = "unknown" \/ statOK
          THEN /\ dpc' = "checked"
               /\ stderrLog' = stderrLog \cup (IF resp.length = "huge" THEN {LargeWarning} ELSE {})
               /\ UNCHANGED <<tempFile, removeFailed, dlErr>>
          ELSE /\ tempFile' = RemoveTemp(tempFile, removeOK)
               /\ removeFailed' = (removeFailed \/ ~removeOK)
               /\ dpc' = "returned"
               /\ dlErr' = WrapDownload(DiskCheckError)
               /\ UNCHANGED stderrLog
    /\ UNCHANGED <<reqPath, resp, gets, copied>>
    /\ UNCHANGED <<locVars, formVars, matchVars, extractVars, repeatVars, runVars, srcVars, concVars>>

\* downloadZip: io.Copy(tempFile, resp.Body) and the return
CopyBody ==
    /\ dpc = "checked"
    /\ \E ok \in BOOLEAN, removeOK \in BOOLEAN :
          /\ dpc' = AfterCopy(ok)
          /\ IF ok
             THEN copied' = TRUE /\ UNCHANGED <<tempFile, removeFailed, dlErr>>
             ELSE /\ tempFile' = RemoveTemp(tempFile, removeOK)
                  /\ removeFailed' = (removeFailed \/ ~removeOK)
                  /\ dlErr' = WrapDownload(WriteError)
                  /\ UNCHANGED copied
    /\ UNCHANGED <<reqPath, resp, gets, stderrLog>>
    /\ UNCHANGED <<locVars, formVars, matchVars, extractVars, repeatVars, runVars, srcVars, concVars>>

\* Download: the sourcePath and the call of extractPath
StartExtract ==
    /\ dpc = "acquired"
    /\ pc = "wait"
    /\ sourcePath' = SourcePathOf(RepoPrefix, reqPath)
    /\ pc' = "ready"
    /\ dpc' = "extracting"
    /\ UNCHANGED <<zipOK, archive, targetPath, dirs, files, readOnly, idx, found,
                   extractedCount, err, madeTarget, made>>
    /\ UNCHANGED <<reqPath, resp, gets, tempFile, copied, removeFailed, dlErr, stderrLog>>
    /\ UNCHANGED <<locVars, formVars, matchVars, repeatVars, runVars, srcVars, concVars>>

\* Download: extractPath has returned; the result, and the deferred os.Remove
ReturnDownload ==
    /\ dpc = "extracting"
    /\ pc = "done"
    /\ \E removeOK \in BOOLEAN :
          /\ tempFile' = RemoveTemp(tempFile, removeOK)
          /\ removeFailed' = (removeFailed \/ ~removeOK)
          /\ dlErr' = DownloadResult(err, removeOK)
          /\ stderrLog' = stderrLog \cup ReturnLines(err, removeOK)
    /\ dpc' = "returned"
    /\ UNCHANGED <<reqPath, resp, gets, copied>>
    /\ UNCHANGED <<locVars, formVars, matchVars, extractVars, repeatVars, runVars, srcVars, concVars>>

NextDownload ==
    \/ HttpGet
    \/ CreateTemp
    \/ CheckDisk
    \/ CopyBody
    \/ StartExtract
    \/ BeginExtract
    \/ ExtractEntry
    \/ FinishExtract
    \/ ReturnDownload

SpecDownload == InitDownload /\ [][NextDownload]_vars

-----------------------------------------------------------------------------
(* Claims about ZipDownloader.Download.                                    *)

\* C11: once Download has returned, the temp archive file the call created
\* no longer exists, whichever step failed or succeeded, provided no removal
\* of the file failed.
C11_TempFileGone ==
    (dpc = "returned" /\ ~removeFailed) => tempFile # "exists"

C11_Witness ==
    /\ dpc = "returned"
    /\ ~removeFailed
    /\ tempFile = "removed"
    /\ dlErr # NilError
    /\ pc = "wait"

\* the deferred removal of the temp file failed: extractPath has returned and
\* an os.Remove has failed (downloadZip removes nothing when it succeeds)
CleanupFailed == dpc = "returned" /\ pc = "done" /\ removeFailed

\* the parts of an error's message
MsgParts(e) == {e.msg[i] : i \in 1..Len(e.msg)}

\* C12 as stated: a failed removal of the temp archive does not change
\* Download's outcome: success stays success, and after a failed extraction
\* the original extraction error is returned with the cleanup failure
\* appended to it as a warning.
C12_CleanupFailureAppended ==
    CleanupFailed =>
        /\ err = ErrNil => dlErr = NilError
        /\ err # ErrNil =>
              /\ dlErr.is = err
              /\ Head(dlErr.msg) = "failed to extract path from zip"
              /\ CleanupWarning \in MsgParts(dlErr)

\* C12, amended: a failed removal of the temp archive does not change
\* Download's outcome: success stays success, and after a failed extraction
\* exactly the original extraction error is returned; the cleanup failure is
\* a warning line on stderr and no part of the returned error.
C12_CleanupFailureIsWarning ==
    CleanupFailed =>
        /\ err = ErrNil => dlErr = NilError
        /\ err # ErrNil =>
              /\ dlErr.is = err
              /\ dlErr.msg = <<"failed to extract path from zip", err>>
        /\ CleanupWarning \notin MsgParts(dlErr)
        /\ CleanupWarning \in stderrLog

C12_Witness ==
    /\ CleanupFailed
    /\ err = ErrInvalidZipPath
    /\ tempFile = "exists"

\* C13: a 404 response gives a not-found error whose kind (the sentinel
\* errors.Is finds) differs from the kind of the error for any other non-200
\* status; the error for another non-200 status carries the status code; in
\* both cases no temp file was created.
C13_NotFoundKindDistinct ==
    (dpc = "returned" /\ gets = 1 /\ ~resp.neterr /\ resp.code # StatusOK) =>
        /\ tempFile = "none"
        /\ resp.code = StatusNotFound =>
              \A r \in Responses :
                  (~r.neterr /\ r.code \notin {StatusOK, StatusNotFound})
                      => StatusError(r.code).is # dlErr.is
        /\ resp.code # StatusNotFound => dlErr.code = resp.code

\* C19: whenever Download returns an error, no file written by that download
\* is left: no regular file exists that the call created.
C19_NothingLeftOnError ==
    (dpc = "returned" /\ dlErr # NilError) =>
        \A i \in 1..Len(made) : made[i] \cap DOMAIN files = {}

\* acquisition has failed: Download has returned without calling extractPath
AcquisitionFailed == dpc = "returned" /\ pc = "wait"

\* C20: Download issues one GET, copies the whole body to the temp file, and
\* only then extracts: extractPath is not entered, and no directory or file
\* is created or changed, before the copy is complete; when acquisition fails
\* Download returns the acquisition error, no second GET is issued and
\* nothing has been created or changed.
C20_DownloadThenExtract ==
    /\ [](gets <= 1)
    /\ [](pc # "wait" => (gets = 1 /\ copied))
    /\ [](AcquisitionFailed =>
            /\ dlErr # NilError
            /\ Head(dlErr.msg) = "failed to download repository zip"
            /\ ~copied
            /\ madeTarget = {}
            /\ made = <<>>)
    /\ [][(dirs' # dirs \/ files' # files) => (gets = 1 /\ copied /\ pc # "wait")]_vars
    /\ [][AcquisitionFailed => (gets' = gets /\ dirs' = dirs /\ files' = files)]_vars

C20_Witness ==
    /\ dpc = "returned"
    /\ pc = "done"
    /\ gets = 1
    /\ copied
    /\ madeTarget # {}
    /\ extractedCount > 0

-----------------------------------------------------------------------------
(* Specification SpecRepeat: extractPath is run, and after a successful    *)
(* run it is run a second time with the same archive, prefix and target.   *)

NoSnapshot == [dirs |-> {}, files |-> <<>>]

RepeatTargets == { <<"t">>, DotDot }

InitRepeat ==
    /\ zipOK = TRUE
    /\ archive \in Archives
    /\ sourcePath \in SourcePaths
    /\ targetPath \in RepeatTargets
    /\ \E pre \in {"absent", "dir"} :
          dirs = BaseDirs \cup (IF pre = "dir" THEN {Resolve(targetPath)} ELSE {})
    /\ files = <<>>
    /\ readOnly = {}
    /\ pc = "ready"
    /\ idx = 0
    /\ found = FALSE
    /\ extractedCount = 0
    /\ err = ErrNil
    /\ madeTarget = {}
    /\ made = <<>>
    /\ run = 1
    /\ first = NoSnapshot
    /\ IdleLocator
    /\ IdleForms
    /\ IdleSource
    /\ IdleConc
    /\ IdleMatch
    /\ IdleDownload
    /\ IdleRun

\* the second call of extractPath, after the first one succeeded
RunAgain ==
    /\ run = 1
    /\ pc = "done"
    /\ err = ErrNil
    /\ run' = 2
    /\ first' = [dirs |-> dirs, files |-> files]
    /\ pc' = "ready"
    /\ idx' = 0
    /\ found' = FALSE
    /\ extractedCount' = 0
    /\ madeTarget' = {}
    /\ made' = <<>>
    /\ UNCHANGED <<zipOK, archive, sourcePath, targetPath, dirs, files, readOnly, err>>
    /\ UNCHANGED <<locVars, formVars, matchVars, dlVars, runVars, srcVars, concVars>>

NextRepeat == BeginExtract \/ ExtractEntry \/ FinishExtract \/ RunAgain

SpecRepeat == InitRepeat /\ [][NextRepeat]_vars

\* C14: a second run of extractPath with the same archive, prefix and target
\* succeeds, whatever permission bits the entries store, and leaves the same
\* files with the same contents as the first run left.
C14_SecondRunSame ==
    (run = 2 /\ pc = "done") =>
        /\ err = ErrNil
        /\ files = first.files
        /\ dirs = first.dirs

-----------------------------------------------------------------------------
(* internal/downloader/downloader.go: the API Downloader, on the GitHub    *)
(* client of internal/github/client.go.                                    *)

ErrFailedToCreateDir == "ErrFailedToCreateDir"
ErrFailedToWriteFile == "ErrFailedToWriteFile"
ErrInvalidDestination == "ErrInvalidDestination"
ErrFileNotFound == "ErrFileNotFound"
ErrDirectoryNotFound == "ErrDirectoryNotFound"

\* strings.Contains for a one-character substring
Contains(s, c) == Index(s, c) # -1

\* ParsedURL.IsFile
IsFile_AnyDot(p) ==
    /\ p.Path # <<>>
    /\ ~HasSuffix(p.Path, Slash)
    /\ Contains(p.Path, ".")

IsFile(p) ==
    /\ p.Path # <<>>
    /\ ~HasSuffix(p.Path, Slash)
    /\ Contains(SliceFrom(p.Path, LastIndex(p.Path, "/") + 1), ".")

\* The repository the client reads is the one the archive was made from: an
\* entry's path below the archive's top directory is its path in the
\* repository.
RepoPath(name) == StripTrailingSlashes(TrimPrefix(name, RepoPrefix \o Slash))
RepoFiles(arc) ==
    {RepoPath(arc[i].name) : i \in {j \in 1..Len(arc) : ~IsDir(arc[j])}}
\* the directories: the root, and every proper parent of a file or directory
RepoDirs(arc) ==
    {<<>>} \cup {RepoPath(arc[i].name) : i \in {j \in 1..Len(arc) : IsDir(arc[j])}}
           \cup UNION {{SliceTo(f, k - 1) : k \in {j \in 1..Len(f) : f[j] = "/"}} :
                           f \in RepoFiles(arc)}
RepoContent(path) == RepoPrefix \o Slash \o path

\* Client.GetFileContent: [err, content]; a directory is answered with a JSON
\* array, which does not parse as one ContentResponse
GetFileContent(arc, path) ==
    IF path \in RepoFiles(arc) THEN [err |-> NilError, content |-> RepoContent(path)]
    ELSE IF path \in RepoDirs(arc)
         THEN [err |-> ErrorOf(NoSentinel, <<"failed to parse response">>, 0), content |-> <<>>]
    ELSE [err |-> ErrorOf(ErrFileNotFound, <<"file not found in repository">>, 0), content |-> <<>>]

\* the names a directory listing can hold, in the order of the listing
ItemOrder == << <<"d">>, <<"f", ".", "t">> >>

\* the path of an item in a directory
ItemPath(dir, name) == IF dir = <<>> THEN name ELSE dir \o Slash \o name

\* Client.GetDirectoryContents: [err, items], each item [Name, Path, Type]
GetDirectoryContents(arc, path) ==
    IF path \in RepoDirs(arc)
    THEN LET present(n) == ItemPath(path, n) \in RepoFiles(arc) \cup RepoDirs(arc)
             names == SelectSeq(ItemOrder, present)
         IN  [err |-> NilError,
              items |-> [i \in 1..Len(names) |->
                           [Name |-> names[i],
                            Path |-> ItemPath(path, names[i]),
                            Type |-> IF ItemPath(path, names[i]) \in RepoFiles(arc)
                                     THEN "file" ELSE "dir"]]]
    ELSE IF path \in RepoFiles(arc)
         THEN [err |-> ErrorOf(NoSentinel, <<"expected directory, got file">>, 0), items |-> <<>>]
    ELSE [err |-> ErrorOf(ErrDirectoryNotFound, <<"directory not found in repository">>, 0),
          items |-> <<>>]

\* fmt.Errorf("...: %w", e)
Wrap(text, e) == [e EXCEPT !.msg = <<text>> \o e.msg]

\* The downloader works on st = [dirs, files, ro, out, err]: the filesystem,
\* what was written to stdout, and the error returned so far.

\* os.Stat(path) succeeds
StatOK(ds, fl, path) == path # <<>> /\ Resolve(path) \in ds \cup DOMAIN fl

\* Downloader.DownloadFile
DownloadFile(st, arc, path, destPath, opts) ==
    LET result(got, mk) ==
            IF got.err # NilError
            THEN [st EXCEPT !.err = Wrap("failed to download file", got.err)]
            ELSE IF opts.OutputToStdout THEN [st EXCEPT !.out = Append(st.out, got.content)]
            ELSE IF mk.failed
                 THEN [st EXCEPT !.dirs = mk.dirs,
                                 !.err = ErrorOf(ErrFailedToCreateDir,
                                                 <<"failed to create directory">>, 0)]
            ELSE IF ~opts.Overwrite /\ StatOK(mk.dirs, st.files, destPath)
                 THEN [st EXCEPT !.dirs = mk.dirs,
                                 !.err = ErrorOf(NoSentinel, <<"file already exists">>, 0)]
            ELSE IF OpenFileFails(mk.dirs, st.files, st.ro, destPath)
                 THEN [st EXCEPT !.dirs = mk.dirs,
                                 !.err = ErrorOf(ErrFailedToWriteFile,
                                                 <<"failed to write file">>, 0)]
            ELSE [st EXCEPT !.dirs = mk.dirs,
                            !.files = WriteFile(st.files, destPath, got.content)]
    IN  result(GetFileContent(arc, path),
               MkdirAll(st.dirs, st.files, st.ro, Dir(destPath), Writable))

\* Downloader.DownloadDirectory up to its loop: [st, items], the listed items
\* each with its itemDestPath
OpenDirectory(st, arc, path, destPath, opts) ==
    LET failed(e) == [st |-> [st EXCEPT !.err = e], items |-> <<>>]
        result(listed, mk) ==
            IF opts.OutputToStdout
            THEN failed(ErrorOf(NoSentinel, <<"cannot output directory to stdout">>, 0))
            ELSE IF listed.err # NilError
                 THEN failed(Wrap("failed to list directory contents", listed.err))
            ELSE IF mk.failed
                 THEN [st |-> [st EXCEPT !.dirs = mk.dirs,
                                         !.err = ErrorOf(ErrFailedToCreateDir,
                                                         <<"failed to create directory">>, 0)],
                       items |-> <<>>]
            ELSE [st |-> [st EXCEPT !.dirs = mk.dirs],
                  items |-> [i \in 1..Len(listed.items) |->
                               [Type |-> listed.items[i].Type,
                                Path |-> listed.items[i].Path,
                                Dest |-> PathJoin(destPath, listed.items[i].Name)]]]
    IN  result(GetDirectoryContents(arc, path),
               MkdirAll(st.dirs, st.files, st.ro, destPath, Writable))

\* Downloader.Download up to the first download: [st, rest], the directories
\* still to download; repo is the answer of RepositoryExists: "exists",
\* "missing" or "error"
BeginDownload(st, arc, repo, path, destPath, opts) ==
    LET asDirectory == [st |-> st,
                        rest |-> <<[Type |-> "dir", Path |-> path, Dest |-> destPath]>>]
        failed(e) == [st |-> [st EXCEPT !.err = e], rest |-> <<>>]
        result(asFile) ==
            IF destPath = <<>> /\ ~opts.OutputToStdout
            THEN failed(ErrorOf(ErrInvalidDestination, <<"invalid destination path">>, 0))
            ELSE IF repo = "error"
                 THEN failed(ErrorOf(NoSentinel, <<"failed to check repository">>, 0))
            ELSE IF repo = "missing"
                 THEN failed(ErrorOf(NoSentinel, <<"repository not found">>, 0))
            ELSE IF path = <<>> THEN asDirectory
            ELSE IF asFile.err = NilError THEN [st |-> asFile, rest |-> <<>>]
            ELSE IF asFile.err.is = ErrFileNotFound THEN asDirectory
            ELSE [st |-> asFile, rest |-> <<>>]
    IN  result(DownloadFile(st, arc, path, destPath, opts))

\* one item of DownloadDirectory's recursion, depth first: a file is
\* downloaded, a directory is listed and created and its items come next
DownloadItem(st, arc, items, opts) ==
    LET next(item) ==
            IF item.Type = "file"
            THEN [st |-> DownloadFile(st, arc, item.Path, item.Dest, opts),
                  rest |-> Tail(items)]
            ELSE LET push(opened) == [st |-> opened.st, rest |-> opened.items \o Tail(items)]
                 IN  push(OpenDirectory(st, arc, item.Path, item.Dest, opts))
    IN  next(Head(items))

-----------------------------------------------------------------------------
(* internal/cli/cli.go: CLI.Run                                            *)

\* the default of the --method flag
DefaultMethod == "zip"

\* CLI.Run's target: [target, toStdout], from the arguments after the
\* source, the parsed source and the directories that exist
TargetOf(rest, p, ds) ==
    LET given == IF Len(rest) > 0 THEN rest[1]
                 ELSE IF IsFile(p) THEN <<>> ELSE Dot
    IN  [toStdout |-> Len(rest) = 0 /\ IsFile(p),
         target |-> IF given # <<>> /\ IsFile(p) /\ Resolve(given) \in ds
                    THEN PathJoin(given, Base(p.Path))
                    ELSE given]

-----------------------------------------------------------------------------
(* Specification SpecRun: one call of CLI.Run with a source and at most    *)
(* one target argument, under the zip method (ZipDownloader.Download, step *)
(* by step) or the api method (Downloader.Download).                       *)

\* sources: a whole repository, a file, a directory, a file in a directory,
\* and a locator without a repository
RunLocators ==
    { GithubPrefix \o <<"o", "/", "r">>,
      GithubPrefix \o <<"o", "/", "r", "/", "f", ".", "t">>,
      GithubPrefix \o <<"o", "/", "r", "/", "d">>,
      GithubPrefix \o <<"o">> }

\* the target arguments
RunArgs == { <<>>, << <<"t">> >> }

Methods == {DefaultMethod, "api"}

\* the archive GitHub serves for the repository
RunEntryNames ==
    { <<"p", "/">>,
      <<"p", "/", "f", ".", "t">>,
      <<"p", "/", "d", "/", "f", ".", "t">> }

RunArchives == UNION {[1..k -> [name : RunEntryNames, mode : {Writable}]] : k \in 0..MaxEntries}

\* the files that exist before the call: none, f.t in the target directory t,
\* or f.t in the working directory
TargetFile == Cwd \o << <<"t">>, <<"f", ".", "t">> >>
CwdFile == Cwd \o << <<"f", ".", "t">> >>
PreFiles == { <<>>, [q \in {TargetFile} |-> OldContent], [q \in {CwdFile} |-> OldContent] }

InitRun ==
    /\ url \in RunLocators
    /\ parsed = NotRun
    /\ zipURL = NoURL
    /\ dlURL = NoURL
    /\ args \in RunArgs
    /\ method \in Methods
    /\ overwrite \in BOOLEAN
    /\ apiRepo \in (IF method = "api" THEN {"exists", "missing", "error"} ELSE {"exists"})
    /\ zipOK = TRUE
    /\ archive \in RunArchives
    /\ files \in PreFiles
    /\ \E pre \in {"absent", "dir"} :
          dirs = BaseDirs \cup (IF pre = "dir" \/ TargetFile \in DOMAIN files
                                THEN {Cwd \o << <<"t">> >>} ELSE {})
    /\ existing = [dirs |-> dirs, files |-> files]
    /\ readOnly = {}
    /\ sourcePath = <<>>
    /\ targetPath = <<>>
    /\ pc = "wait"
    /\ idx = 0
    /\ found = FALSE
    /\ extractedCount = 0
    /\ err = ErrNil
    /\ madeTarget = {}
    /\ made = <<>>
    /\ rpc = "start"
    /\ toStdout = FALSE
    /\ stdout = <<>>
    /\ apiCalls = 0
    /\ todo = <<>>
    /\ runErr = NilError
    /\ IdleForms
    /\ IdleSource
    /\ IdleConc
    /\ IdleMatch
    /\ IdleDownload
    /\ IdleRepeat

\* CLI.Run up to the choice of the downloader: the source is parsed, the
\* target is determined, and under the zip method the request is built
RunPrepare ==
    /\ rpc = "start"
    /\ \E p \in {ParseGitHubURLWithRef(url)} :
       \E t \in {TargetOf(args, p, dirs)} :
           /\ parsed' = p
           /\ IF p.err # ErrNil
              THEN /\ rpc' = "returned"
                   /\ runErr' = ErrorOf(p.err, <<"invalid source URL", p.err>>, 0)
                   /\ UNCHANGED <<targetPath, toStdout, dpc, reqPath>>
              ELSE /\ targetPath' = t.target
                   /\ toStdout' = t.toStdout
                   /\ UNCHANGED runErr
                   /\ IF method = "zip"
                      THEN rpc' = "zip" /\ dpc' = "start" /\ reqPath' = p.Path
                      ELSE rpc' = "api" /\ UNCHANGED <<dpc, reqPath>>
    /\ UNCHANGED <<url, zipURL, dlURL>>
    /\ UNCHANGED <<zipOK, archive, sourcePath, dirs, files, readOnly, pc, idx, found,
                   extractedCount, err, madeTarget, made>>
    /\ UNCHANGED <<resp, gets, tempFile, copied, removeFailed, dlErr, stderrLog>>
    /\ UNCHANGED <<args, method, overwrite, apiRepo, stdout, apiCalls, todo, existing>>
    /\ UNCHANGED <<formVars, matchVars, repeatVars, srcVars, concVars>>

\* the downloader's state and options in CLI.Run
ApiState == [dirs |-> dirs, files |-> files, ro |-> readOnly, out |-> stdout, err |-> NilError]
ApiOptions == [OutputToStdout |-> toStdout, Overwrite |-> overwrite]

\* CLI.Run under the api method: c.downloader.Download(source, targetPath,
\* opts) up to its first download; it returns unless directories remain
RunApi ==
    /\ rpc = "api"
    /\ \E out \in {BeginDownload(ApiState, archive, apiRepo, parsed.Path, targetPath, ApiOptions)} :
           /\ dirs' = out.st.dirs
           /\ files' = out.st.files
           /\ readOnly' = out.st.ro
           /\ stdout' = out.st.out
           /\ runErr' = out.st.err
           /\ todo' = out.rest
           /\ rpc' = (IF out.rest = <<>> THEN "returned" ELSE "items")
    /\ apiCalls' = apiCalls + 1
    /\ UNCHANGED <<zipOK, archive, sourcePath, targetPath, pc, idx, found,
                   extractedCount, err, madeTarget, made>>
    /\ UNCHANGED <<args, method, overwrite, apiRepo, toStdout, existing>>
    /\ UNCHANGED <<locVars, formVars, matchVars, dlVars, repeatVars, srcVars, concVars>>

\* DownloadDirectory: the next item; the first error, or the last item,
\* returns from Download and from CLI.Run
ApiItem ==
    /\ rpc = "items"
    /\ \E out \in {DownloadItem(ApiState, archive, todo, ApiOptions)} :
       \E over \in {out.st.err # NilError \/ out.rest = <<>>} :
           /\ dirs' = out.st.dirs
           /\ files' = out.st.files
           /\ readOnly' = out.st.ro
           /\ stdout' = out.st.out
           /\ runErr' = out.st.err
           /\ todo' = (IF over THEN <<>> ELSE out.rest)
           /\ rpc' = (IF over THEN "returned" ELSE "items")
    /\ UNCHANGED <<zipOK, archive, sourcePath, targetPath, pc, idx, found,
                   extractedCount, err, madeTarget, made>>
    /\ UNCHANGED <<args, method, overwrite, apiRepo, toStdout, apiCalls, existing>>
    /\ UNCHANGED <<locVars, formVars, matchVars, dlVars, repeatVars, srcVars, concVars>>

\* CLI.Run under the zip method: return zipDownloader.Download(req)
RunReturnZip ==
    /\ rpc = "zip"
    /\ dpc = "returned"
    /\ runErr' = dlErr
    /\ rpc' = "returned"
    /\ UNCHANGED <<args, method, overwrite, apiRepo, toStdout, stdout, apiCalls, todo, existing>>
    /\ UNCHANGED <<locVars, formVars, matchVars, extractVars, dlVars, repeatVars, srcVars, concVars>>

NextRun ==
    \/ RunPrepare
    \/ RunApi
    \/ ApiItem
    \/ RunReturnZip
    \/ HttpGet
    \/ CreateTemp
    \/ CheckDisk
    \/ CopyBody
    \/ StartExtract
    \/ BeginExtract
    \/ ExtractEntry
    \/ FinishExtract
    \/ ReturnDownload

SpecRun == InitRun /\ [][NextRun]_vars

-----------------------------------------------------------------------------
(* CLI.Run: the overwrite policy, the default targets and the fallback     *)

\* the source parsed and CLI.Run has returned
RunReturned == rpc = "returned" /\ parsed # NotRun /\ parsed.err = ErrNil

\* the repository was served: under the zip method the archive was fetched
\* and extractPath has run, under the api method the repository exists
Served ==
    /\ method = "zip" => pc = "done"
    /\ method = "api" => apiRepo = "exists"

\* C15: without the overwrite flag, under either method, every file that
\* existed before the call is still there with its content in every state of
\* the call.
C15_ExistingFilesKept ==
    ~overwrite =>
        \A q \in DOMAIN existing.files : q \in DOMAIN files /\ files[q] = existing.files[q]

\* C16: when CLI.Run is called with only a file source, the repository is
\* served and holds the file, then under either method the call succeeds,
\* stdout holds exactly the file's content, and no file or directory has been
\* created or changed.
C16_FileSourceToStdout ==
    ( /\ RunReturned
      /\ args = <<>>
      /\ IsFile(parsed)
      /\ Served
      /\ parsed.Path \in RepoFiles(archive) )
    => /\ runErr = NilError
       /\ stdout = <<RepoContent(parsed.Path)>>
       /\ dirs = existing.dirs
       /\ files = existing.files

\* a file of the repository at or below a path, and its path relative to it
UnderPath(path, f) ==
    \/ path = <<>>
    \/ Len(f) > Len(path) + 1 /\ SubSeq(f, 1, Len(path) + 1) = path \o Slash
RelUnder(path, f) == IF path = <<>> THEN f ELSE SubSeq(f, Len(path) + 2, Len(f))

\* the files of the repository the source selects
Wanted == {f \in RepoFiles(archive) : UnderPath(parsed.Path, f)}

\* C17: when CLI.Run is called with only a directory or whole-repository
\* source, the repository is served and holds files under the requested path,
\* and no file exists beforehand, then the target is "." and the call
\* succeeds with every selected file present under the working directory
\* with its content.
C17_DirectorySourceIntoCwd ==
    ( /\ RunReturned
      /\ args = <<>>
      /\ ~IsFile(parsed)
      /\ Served
      /\ existing.files = <<>>
      /\ Wanted # {} )
    => /\ targetPath = Dot
       /\ runErr = NilError
       /\ \A f \in Wanted :
             /\ Resolve(RelUnder(parsed.Path, f)) \in DOMAIN files
             /\ files[Resolve(RelUnder(parsed.Path, f))] = RepoContent(f)

\* C18: when CLI.Run has returned under the zip method after
\* ZipDownloader.Download failed, the API downloader has been called.
C18_ApiFallbackAfterZipFailure ==
    (RunReturned /\ method = DefaultMethod /\ dlErr # NilError) => apiCalls > 0

\* C23: when CLI.Run is called with a file source and a target directory,
\* the repository is served and holds the file, and no file exists
\* beforehand, then the call succeeds with the file at
\* <target>/<basename of the source path>, whether or not the target
\* directory existed, and creates no directory named after the file.
C23_FileIntoTargetDirectory ==
    ( /\ RunReturned
      /\ args # <<>>
      /\ IsFile(parsed)
      /\ Served
      /\ existing.files = <<>>
      /\ parsed.Path \in RepoFiles(archive) )
    => /\ runErr = NilError
       /\ Resolve(PathJoin(args[1], Base(parsed.Path))) \in DOMAIN files
       /\ files[Resolve(PathJoin(args[1], Base(parsed.Path)))] = RepoContent(parsed.Path)
       /\ \A q \in dirs \ existing.dirs : q[Len(q)] # Base(parsed.Path)

\* C26: when CLI.Run has returned under the api method for a non-empty path
\* that names a directory of an existing repository, and a target is set,
\* Downloader.Download has fallen back to DownloadDirectory and succeeded.
C26_DirectoryFallback ==
    ( /\ RunReturned
      /\ method = "api"
      /\ apiRepo = "exists"
      /\ ~toStdout
      /\ parsed.Path # <<>>
      /\ parsed.Path \in RepoDirs(archive) )
    => runErr = NilError

-----------------------------------------------------------------------------
(* internal/github/url.go: the methods of ParsedURL and ParseGitHubURL     *)

\* ParsedURL.IsDirectory
IsDirectory(p) == ~IsFile(p)

\* ParseGitHubURL: the legacy GitHubSource [err, Owner, Repo, Path, IsFile]
ParseGitHubURL(u) ==
    LET source(p) ==
            IF p.err # ErrNil
            THEN [err |-> p.err, Owner |-> <<>>, Repo |-> <<>>, Path |-> <<>>, IsFile |-> FALSE]
            ELSE [err |-> ErrNil, Owner |-> p.Owner, Repo |-> p.Repo, Path |-> p.Path,
                  IsFile |-> IsFile(p)]
    IN  source(ParseGitHubURLWithRef(u))

\* ParsedURL.String
String(p) ==
    LET base == GithubPrefix \o p.Owner \o Slash \o p.Repo
    IN  IF p.Path # <<>> /\ p.Ref # Main THEN base \o <<"@">> \o p.Ref \o Slash \o p.Path
        ELSE IF p.Path # <<>> THEN base \o Slash \o p.Path
        ELSE IF p.Ref # Main THEN base \o <<"@">> \o p.Ref
        ELSE base

-----------------------------------------------------------------------------
(* Specification SpecSource: a locator of the repository o/r is parsed,    *)
(* the result is classified as file or directory, written back as a string *)
(* and that string is parsed again.                                        *)

\* longest text after "github:o/r"
MaxTail == 4

SourceAlphabet == {"a", "/", "@", "."}
SourceLocators ==
    {GithubPrefix \o <<"o", "/", "r">> \o t : t \in StringsUpTo(SourceAlphabet, MaxTail)}

InitSource ==
    /\ url \in SourceLocators
    /\ parsed = NotRun
    /\ zipURL = NoURL
    /\ dlURL = NoURL
    /\ kind = NotRun
    /\ shown = NoURL
    /\ reparsed = NotRun
    /\ IdleForms
    /\ IdleConc
    /\ IdleMatch
    /\ IdleExtract
    /\ IdleDownload
    /\ IdleRepeat
    /\ IdleRun

\* p.IsFile(), p.IsDirectory() and ParseGitHubURL(url).IsFile
Classify ==
    /\ parsed # NotRun
    /\ parsed.err = ErrNil
    /\ kind = NotRun
    /\ kind' = [IsFile |-> IsFile(parsed),
                IsDirectory |-> IsDirectory(parsed),
                Legacy |-> ParseGitHubURL(url).IsFile]
    /\ UNCHANGED <<shown, reparsed>>
    /\ UNCHANGED <<locVars, formVars, matchVars, extractVars, dlVars, repeatVars, runVars, concVars>>

\* p.String()
Show ==
    /\ parsed # NotRun
    /\ parsed.err = ErrNil
    /\ shown = NoURL
    /\ shown' = String(parsed)
    /\ UNCHANGED <<kind, reparsed>>
    /\ UNCHANGED <<locVars, formVars, matchVars, extractVars, dlVars, repeatVars, runVars, concVars>>

\* ParseGitHubURLWithRef(p.String())
Reparse ==
    /\ shown # NoURL
    /\ reparsed = NotRun
    /\ reparsed' = ParseGitHubURLWithRef(shown)
    /\ UNCHANGED <<kind, shown>>
    /\ UNCHANGED <<locVars, formVars, matchVars, extractVars, dlVars, repeatVars, runVars, concVars>>

NextSource == Parse \/ Classify \/ Show \/ Reparse

SpecSource == InitSource /\ [][NextSource]_vars

\* a path whose last "/"-separated segment holds a "."
DotInLastSegment(path) ==
    \E i \in 1..Len(path) : path[i] = "." /\ \A j \in (i + 1)..Len(path) : path[j] # "/"

C29_StringRoundTrip ==
    reparsed # NotRun =>
        /\ reparsed.err = ErrNil
        /\ reparsed.Owner = parsed.Owner
        /\ reparsed.Repo = parsed.Repo
        /\ reparsed.Path = parsed.Path
        /\ reparsed.Ref = parsed.Ref

-----------------------------------------------------------------------------
(* Specification SpecSelect: ZipDownloader.Download from the point where   *)
(* downloadZip has returned the archive: the selection prefix is built     *)
(* from req.Path and extractPath runs with it.                             *)

\* longest req.Path
MaxPathLen == 4

\* req.Path: what a locator can carry after owner/repo/
SelectAlphabet == {"q", ".", "/"}
SelectPaths == StringsUpTo(SelectAlphabet, MaxPathLen)

\* entries inside the archive's top directory "p", and one outside it
SelectEntryNames ==
    { <<"p", "/", "a">>,
      <<"p", "/", "q", "/", "a">>,
      <<"q", "/", "a">> }

SelectArchives ==
    UNION {[1..k -> [name : SelectEntryNames, mode : {Writable}]] : k \in 0..MaxEntries}

InitSelect ==
    /\ zipOK = TRUE
    /\ archive \in SelectArchives
    /\ reqPath \in SelectPaths
    /\ targetPath = <<"t">>
    /\ sourcePath = <<>>
    /\ dirs = BaseDirs
    /\ files = <<>>
    /\ readOnly = {}
    /\ pc = "wait"
    /\ idx = 0
    /\ found = FALSE
    /\ extractedCount = 0
    /\ err = ErrNil
    /\ madeTarget = {}
    /\ made = <<>>
    /\ dpc = "acquired"
    /\ resp = [neterr |-> FALSE, code |-> StatusOK, length |-> "unknown"]
    /\ gets = 1
    /\ tempFile = "exists"
    /\ copied = TRUE
    /\ removeFailed = FALSE
    /\ dlErr = NilError
    /\ stderrLog = {}
    /\ IdleLocator
    /\ IdleForms
    /\ IdleSource
    /\ IdleConc
    /\ IdleMatch
    /\ IdleRepeat
    /\ IdleRun

NextSelect ==
    \/ StartExtract
    \/ BeginExtract
    \/ ExtractEntry
    \/ FinishExtract
    \/ ReturnDownload

SpecSelect == InitSelect /\ [][NextSelect]_vars

\* C30: once Download has built the selection prefix, it is "<repo>-<ref>"
\* for an empty Path and otherwise is "<repo>-<ref>" or starts with
\* "<repo>-<ref>/", whatever "." and ".." segments and trailing "/" the Path
\* holds; no entry outside the archive's top directory creates anything.
C30_PrefixInsideTopDirectory ==
    pc # "wait" =>
        /\ reqPath = <<>> => sourcePath = RepoPrefix
        /\ sourcePath = RepoPrefix \/ HasPrefix(sourcePath, RepoPrefix \o Slash)
        /\ \A i \in 1..Len(made) :
              made[i] # {} => HasPrefix(archive[i].name, RepoPrefix \o Slash)

-----------------------------------------------------------------------------
(* Specification SpecCancel: one call of ZipDownloader.Download during     *)
(* which the process may receive SIGINT or SIGTERM. cmd/xcp/main.go        *)
(* installs no signal handler and Download takes no context, so the Go     *)
(* runtime ends the process at the signal: no deferred call runs.          *)

\* the signal arrives while downloadZip is talking to the network or
\* extractPath is writing: the process ends where it stands
Cancel ==
    /\ dpc \in {"start", "responded", "created", "checked", "extracting"}
    /\ dpc' = "killed"
    /\ pc' = (IF pc \in {"ready", "loop"} THEN "killed" ELSE pc)
    /\ UNCHANGED <<zipOK, archive, sourcePath, targetPath, dirs, files, readOnly, idx, found,
                   extractedCount, err, madeTarget, made>>
    /\ UNCHANGED <<reqPath, resp, gets, tempFile, copied, removeFailed, dlErr, stderrLog>>
    /\ UNCHANGED <<locVars, formVars, matchVars, repeatVars, runVars, srcVars, concVars>>

NextCancel ==
    \/ HttpGet
    \/ CreateTemp
    \/ CheckDisk
    \/ CopyBody
    \/ StartExtract
    \/ BeginExtract
    \/ ExtractEntry
    \/ FinishExtract
    \/ ReturnDownload
    \/ Cancel

SpecCancel == InitDownload /\ [][NextCancel]_vars

\* C21: once a cancellation signal has stopped Download, which then performs
\* no further step, the temporary archive file does not exist.
C21_CancelRemovesTempFile ==
    dpc = "killed" => tempFile # "exists"

-----------------------------------------------------------------------------
(* Specification SpecConc: concurrent calls of ZipDownloader.Download that *)
(* share one temp directory. An invocation's only state is its position    *)
(* and its zipPath; the temp directory is shared.                          *)

\* the number of concurrent invocations
MaxInvocations == 2

Invocations == 1..MaxInvocations

\* the names "xcp-download-<n>.zip" os.CreateTemp can draw
TempNames == {<<n>> : n \in 1..(MaxInvocations + 1)}

\* no temp file yet
NoName == <<>>

\* an earlier process, whose temp file may have been left behind
Earlier == MaxInvocations + 1

\* os.CreateTemp opens with O_CREATE|O_EXCL and draws again when the name is
\* taken: the names it can return
FreshNames_Any(taken) == TempNames

FreshNames(taken) == TempNames \ taken

\* the temp directory with the file name written ([creator, complete])
PutTemp(dir, name, file) ==
    [n \in DOMAIN dir \cup {name} |-> IF n = name THEN file ELSE dir[n]]

\* the temp directory after os.Remove(name)
DropTemp(dir, name) == [n \in DOMAIN dir \ {name} |-> dir[n]]

\* the record of an access to a temp file, with the file's creator
Access(p, dir, name, op) ==
    IF name \in DOMAIN dir THEN {[by |-> p, owner |-> dir[name].creator, op |-> op]} ELSE {}

InitConc ==
    /\ inv = [p \in Invocations |-> [pc |-> "start", zipPath |-> NoName]]
    /\ \E left \in SUBSET {<<MaxInvocations + 1>>} :
          temps = [n \in left |-> [creator |-> Earlier, complete |-> TRUE]]
    /\ touched = {}
    /\ IdleLocator
    /\ IdleForms
    /\ IdleSource
    /\ IdleMatch
    /\ IdleExtract
    /\ IdleDownload
    /\ IdleRepeat
    /\ IdleRun

\* downloadZip of invocation p: the GET and the status checks
ConcGet(p) ==
    /\ inv[p].pc = "start"
    /\ \E ok \in BOOLEAN :
          inv' = [inv EXCEPT ![p].pc = IF ok THEN "responded" ELSE "returned"]
    /\ UNCHANGED <<temps, touched>>
    /\ UNCHANGED <<locVars, formVars, matchVars, extractVars, dlVars, repeatVars, runVars, srcVars>>

\* downloadZip of invocation p: os.CreateTemp(zd.tempDir, "xcp-download-*.zip")
ConcCreateTemp(p) ==
    /\ inv[p].pc = "responded"
    /\ \/ /\ \E n \in FreshNames(DOMAIN temps) :
                /\ temps' = PutTemp(temps, n, [creator |-> p, complete |-> FALSE])
                /\ inv' = [inv EXCEPT ![p] = [pc |-> "created", zipPath |-> n]]
          /\ UNCHANGED touched
       \/ /\ inv' = [inv EXCEPT ![p].pc = "returned"]
          /\ UNCHANGED <<temps, touched>>
    /\ UNCHANGED <<locVars, formVars, matchVars, extractVars, dlVars, repeatVars, runVars, srcVars>>

\* downloadZip of invocation p: io.Copy into its temp file; on failure
\* os.Remove(tempFile.Name())
ConcCopy(p) ==
    /\ inv[p].pc = "created"
    /\ \E ok \in BOOLEAN :
          IF ok
          THEN /\ temps' = (IF inv[p].zipPath \in DOMAIN temps
                            THEN [temps EXCEPT ![inv[p].zipPath].complete = TRUE]
                            ELSE temps)
               /\ touched' = touched \cup Access(p, temps, inv[p].zipPath, "write")
               /\ inv' = [inv EXCEPT ![p].pc = "acquired"]
          ELSE /\ temps' = DropTemp(temps, inv[p].zipPath)
               /\ touched' = touched \cup Access(p, temps, inv[p].zipPath, "remove")
               /\ inv' = [inv EXCEPT ![p].pc = "returned"]
    /\ UNCHANGED <<locVars, formVars, matchVars, extractVars, dlVars, repeatVars, runVars, srcVars>>

\* Download of invocation p: extractPath(zipPath, ...) reads the archive
ConcExtract(p) ==
    /\ inv[p].pc = "acquired"
    /\ touched' = touched \cup Access(p, temps, inv[p].zipPath, "extract")
    /\ inv' = [inv EXCEPT ![p].pc = "extracted"]
    /\ UNCHANGED temps
    /\ UNCHANGED <<locVars, formVars, matchVars, extractVars, dlVars, repeatVars, runVars, srcVars>>

\* Download of invocation p: the deferred os.Remove(zipPath), which may fail
ConcRemove(p) ==
    /\ inv[p].pc = "extracted"
    /\ \E ok \in BOOLEAN :
          IF ok
          THEN /\ temps' = DropTemp(temps, inv[p].zipPath)
               /\ touched' = touched \cup Access(p, temps, inv[p].zipPath, "remove")
          ELSE UNCHANGED <<temps, touched>>
    /\ inv' = [inv EXCEPT ![p].pc = "returned"]
    /\ UNCHANGED <<locVars, formVars, matchVars, extractVars, dlVars, repeatVars, runVars, srcVars>>

NextConc ==
    \E p \in Invocations :
        \/ ConcGet(p)
        \/ ConcCreateTemp(p)
        \/ ConcCopy(p)
        \/ ConcExtract(p)
        \/ ConcRemove(p)

SpecConc == InitConc /\ [][NextConc]_vars

\* invocation p holds a temp file it has not yet removed
HoldsTemp(p) == inv[p].pc \in {"created", "acquired", "extracted"}

\* C22: in every interleaving, two invocations that hold temp files hold
\* differently named ones, every temp file an invocation holds was created by
\* it, and every write to, extraction from and removal of a temp file was
\* done by the invocation that created the file.
C22_OwnTempFileOnly ==
    /\ \A p \in Invocations, q \in Invocations :
          (p # q /\ HoldsTemp(p) /\ HoldsTemp(q)) => inv[p].zipPath # inv[q].zipPath
    /\ \A p \in Invocations :
          HoldsTemp(p) => /\ inv[p].zipPath \in DOMAIN temps
                          /\ temps[inv[p].zipPath].creator = p
    /\ \A t \in touched : t.by = t.owner

C22_Witness ==
    /\ \A p \in Invocations : inv[p].pc = "acquired"
    /\ \E t \in touched : t.op = "write" /\ t.by = 1
    /\ \E t \in touched : t.op = "write" /\ t.by = 2

====
